---- MODULE Spec2Model ----
(***************************************************************************)
(* phpvm front end: Lexer::tokenize (src/src/lexer.rs) followed by         *)
(* Parser::parse (src/src/parser.rs), as main.rs runs them.                *)
(*                                                                         *)
(* Characters are one-character strings; the source text is a sequence of  *)
(* characters.  Cursor positions are 0-based as in the code, so the        *)
(* element under a cursor `pos` is seq[pos + 1].                           *)
(***************************************************************************)
EXTENDS Integers, Sequences, FiniteSets, TLC

VARIABLES source, lexer, tokens, lexResult, parser, stack, ret, parseResult,
          entered

vars ==
  <<source, lexer, tokens, lexResult, parser, stack, ret, parseResult,
    entered>>

(***************************************************************************)
(* Characters                                                              *)
(***************************************************************************)
None == "None"

Whitespace == {" ", "\t", "\n", "\r"}

Digits == {"0", "1", "2", "3", "4", "5", "6", "7", "8", "9"}

Alphabetic ==
  {"a", "b", "c", "d", "e", "f", "g", "h", "i", "j", "k", "l", "m", "n", "o",
   "p", "q", "r", "s", "t", "u", "v", "w", "x", "y", "z",
   "A", "B", "C", "D", "E", "F", "G", "H", "I", "J", "K", "L", "M", "N", "O",
   "P", "Q", "R", "S", "T", "U", "V", "W", "X", "Y", "Z"}

is_whitespace(c) == c \in Whitespace

is_ascii_digit(c) == c \in Digits

is_alphabetic(c) == c \in Alphabetic

is_alphanumeric(c) == c \in Alphabetic \cup Digits

RECURSIVE Str(_)
Str(s) == IF s = <<>> THEN "" ELSE Head(s) \o Str(Tail(s))

(***************************************************************************)
(* Tokens (token.rs).  A token is a record with its variant in `t` and,    *)
(* for the variants that carry a value, the value in `v`.                  *)
(***************************************************************************)
Tk(t) == [t |-> t]

TkV(t, v) == [t |-> t, v |-> v]

\* spanned that takes the column for the line
spanned_swapped(token, line, col) ==
  [token |-> token, line |-> col, col |-> line]

spanned(token, line, col) == [token |-> token, line |-> line, col |-> col]

(***************************************************************************)
(* Lexer cursor (lexer.rs 20-40).  A lexer value l is [pos, line, col].    *)
(***************************************************************************)
Lexer_new == [pos |-> 0, line |-> 1, col |-> 1]

lex_peek(l) == IF l.pos < Len(source) THEN source[l.pos + 1] ELSE None

peek_next(l) == IF l.pos + 1 < Len(source) THEN source[l.pos + 2] ELSE None

\* advance that counts the newline but leaves the column running
lex_advance_keeps_col(l) ==
  IF l.pos < Len(source)
  THEN IF source[l.pos + 1] = "\n"
       THEN [pos |-> l.pos + 1, line |-> l.line + 1, col |-> l.col + 1]
       ELSE [pos |-> l.pos + 1, line |-> l.line, col |-> l.col + 1]
  ELSE l

lex_advance(l) ==
  IF l.pos < Len(source)
  THEN IF source[l.pos + 1] = "\n"
       THEN [pos |-> l.pos + 1, line |-> l.line + 1, col |-> 1]
       ELSE [pos |-> l.pos + 1, line |-> l.line, col |-> l.col + 1]
  ELSE l

\* the inner loop of a `//` or `#` comment: up to, not including, the newline
RECURSIVE skip_line(_)
skip_line(l) ==
  IF lex_peek(l) = None \/ lex_peek(l) = "\n" THEN l
  ELSE skip_line(lex_advance(l))

\* the loop of a block comment, after its `/*` has been consumed
RECURSIVE skip_block(_)
skip_block(l) ==
  LET c  == lex_peek(l)
      l1 == lex_advance(l)
  IN  IF c = None THEN l
      ELSE IF c = "*" /\ lex_peek(l1) = "/" THEN lex_advance(l1)
      ELSE skip_block(l1)

RECURSIVE skip_whitespace(_)
skip_whitespace(l) ==
  LET c == lex_peek(l)
  IN  IF c = None THEN l
      ELSE IF is_whitespace(c) THEN skip_whitespace(lex_advance(l))
      ELSE IF c = "/" /\ peek_next(l) = "/" THEN skip_whitespace(skip_line(l))
      ELSE IF c = "/" /\ peek_next(l) = "*"
           THEN skip_whitespace(skip_block(lex_advance(lex_advance(l))))
      ELSE IF c = "#" THEN skip_whitespace(skip_line(l))
      ELSE l

(***************************************************************************)
(* Literals and identifiers (lexer.rs 86-168).  Each reader returns the    *)
(* lexer after the lexeme and what it read.                                *)
(***************************************************************************)
\* escape that keeps only the character after the backslash
escape_drops_backslash(c, quote) ==
  IF c = "n" THEN "\n"
  ELSE IF c = "t" THEN "\t"
  ELSE c

\* lexer.rs 91-98: what a backslash followed by c adds to the string
escape(c, quote) ==
  IF c = "n" THEN "\n"
  ELSE IF c = "t" THEN "\t"
  ELSE IF c = "\\" THEN "\\"
  ELSE IF c = quote THEN c
  ELSE "\\" \o c

RECURSIVE read_string_loop(_, _, _)
read_string_loop(l, quote, s) ==
  LET c  == lex_peek(l)
      l1 == lex_advance(l)
      c2 == lex_peek(l1)
      l2 == lex_advance(l1)
  IN  IF c = None THEN [l |-> l, s |-> s]
      ELSE IF c = "\\"
           THEN IF c2 = None THEN [l |-> l1, s |-> s]
                ELSE read_string_loop(l2, quote, s \o escape(c2, quote))
      ELSE IF c = quote THEN [l |-> l1, s |-> s]
      ELSE read_string_loop(l1, quote, s \o c)

read_string(l, quote) ==
  LET r == read_string_loop(l, quote, "")
  IN  [l |-> r.l, token |-> TkV("StringLiteral", r.s)]

\* i64::MAX = 9223372036854775807, most significant digit first
I64MaxDigits ==
  <<"9", "2", "2", "3", "3", "7", "2", "0", "3", "6", "8", "5", "4", "7",
    "7", "5", "8", "0", "7">>

DigitValue(c) == CHOOSE n \in 0..9 : <<"0", "1", "2", "3", "4", "5", "6", "7", "8", "9">>[n + 1] = c

RECURSIVE StripZeros(_)
StripZeros(ds) ==
  IF Len(ds) > 1 /\ Head(ds) = "0" THEN StripZeros(Tail(ds)) ELSE ds

\* ds <= es for two digit sequences of the same length
RECURSIVE DigitsLeq(_, _)
DigitsLeq(ds, es) ==
  IF ds = <<>> THEN TRUE
  ELSE IF DigitValue(Head(ds)) < DigitValue(Head(es)) THEN TRUE
  ELSE IF DigitValue(Head(ds)) > DigitValue(Head(es)) THEN FALSE
  ELSE DigitsLeq(Tail(ds), Tail(es))

\* str::parse::<i64> of a digit-only text: the value as its canonical decimal
\* numeral, or an error when it exceeds i64::MAX
parse_i64(num) ==
  LET ds == StripZeros(num)
  IN  IF Len(ds) < Len(I64MaxDigits)
         \/ (Len(ds) = Len(I64MaxDigits) /\ DigitsLeq(ds, I64MaxDigits))
      THEN [ok |-> TRUE, v |-> Str(ds)]
      ELSE [ok |-> FALSE]

RECURSIVE read_number_loop(_, _, _)
read_number_loop(l, num, is_float) ==
  LET c == lex_peek(l)
  IN  IF c # None /\ is_ascii_digit(c)
      THEN read_number_loop(lex_advance(l), Append(num, c), is_float)
      ELSE IF c = "." /\ ~is_float /\ peek_next(l) # None
              /\ is_ascii_digit(peek_next(l))
      THEN read_number_loop(lex_advance(l), Append(num, c), TRUE)
      ELSE [l |-> l, num |-> num, is_float |-> is_float]

\* `.parse().unwrap()` panics when the text does not fit the target type
read_number(l, first) ==
  LET r == read_number_loop(l, <<first>>, FALSE)
  IN  IF r.is_float
      THEN [l |-> r.l, panic |-> FALSE, token |-> TkV("Float", Str(r.num))]
      ELSE IF parse_i64(r.num).ok
      THEN [l |-> r.l, panic |-> FALSE,
            token |-> TkV("Integer", parse_i64(r.num).v)]
      ELSE [l |-> r.l, panic |-> TRUE]

RECURSIVE read_identifier(_, _)
read_identifier(l, ident) ==
  LET c == lex_peek(l)
  IN  IF c # None /\ (is_alphanumeric(c) \/ c = "_")
      THEN read_identifier(lex_advance(l), ident \o c)
      ELSE [l |-> l, ident |-> ident]

keyword_or_ident(ident) ==
  CASE ident = "echo" -> Tk("Echo")
    [] ident = "if" -> Tk("If")
    [] ident = "else" -> Tk("Else")
    [] ident = "elseif" -> Tk("Elseif")
    [] ident = "while" -> Tk("While")
    [] ident = "for" -> Tk("For")
    [] ident = "function" -> Tk("Function")
    [] ident = "return" -> Tk("Return")
    [] ident \in {"true", "TRUE"} -> Tk("True")
    [] ident \in {"false", "FALSE"} -> Tk("False")
    [] ident \in {"null", "NULL"} -> Tk("Null")
    [] OTHER -> TkV("Identifier", ident)

(***************************************************************************)
(* Lexer::tokenize (lexer.rs 170-306), in two parts: the open tag, then    *)
(* one pass of the token loop per step.                                     *)
(***************************************************************************)
TagLen == 5

OpenTagText == <<"<", "?", "p", "h", "p">>

\* lexer.rs 174-189.  A slice that runs past the end of the source panics.
open_tag(l0) ==
  LET l   == skip_whitespace(l0)
      l5  == lex_advance(lex_advance(lex_advance(lex_advance(lex_advance(l)))))
  IN  IF Len(source) >= TagLen
      THEN IF l.pos + TagLen > Len(source)
           THEN [kind |-> "Panic", l |-> l]
           ELSE IF SubSeq(source, l.pos + 1, l.pos + TagLen) = OpenTagText
           THEN [kind |-> "Token", l |-> l5,
                 sp |-> spanned(Tk("OpenTag"), l.line, l.col)]
           ELSE [kind |-> "Err", l |-> l,
                 err |-> [msg |-> "Expected <?php at start, got",
                          tag |-> SubSeq(source, l.pos + 1, l.pos + TagLen)]]
      ELSE [kind |-> "Err", l |-> l, err |-> [msg |-> "Expected <?php"]]

\* lexer.rs 219-275: the operator arms, each after its first character has
\* been consumed (l is the lexer after it)

\* `=` that settles for `==` without looking for a third `=`
equals_token_two(l) ==
  IF lex_peek(l) = "="
  THEN [l |-> lex_advance(l), token |-> Tk("Equal")]
  ELSE IF lex_peek(l) = ">"
  THEN [l |-> lex_advance(l), token |-> Tk("Arrow")]
  ELSE [l |-> l, token |-> Tk("Assign")]

\* 219-234
equals_token(l) ==
  IF lex_peek(l) = "="
  THEN IF lex_peek(lex_advance(l)) = "="
       THEN [l |-> lex_advance(lex_advance(l)), token |-> Tk("Identical")]
       ELSE [l |-> lex_advance(l), token |-> Tk("Equal")]
  ELSE IF lex_peek(l) = ">"
  THEN [l |-> lex_advance(l), token |-> Tk("Arrow")]
  ELSE [l |-> l, token |-> Tk("Assign")]

\* 235-247
bang_token(l) ==
  IF lex_peek(l) = "="
  THEN IF lex_peek(lex_advance(l)) = "="
       THEN [l |-> lex_advance(lex_advance(l)), token |-> Tk("NotIdentical")]
       ELSE [l |-> lex_advance(l), token |-> Tk("NotEqual")]
  ELSE [l |-> l, token |-> Tk("Not")]

\* 249-256
less_token(l) ==
  IF lex_peek(l) = "="
  THEN [l |-> lex_advance(l), token |-> Tk("LessEqual")]
  ELSE [l |-> l, token |-> Tk("Less")]

\* 258-265
greater_token(l) ==
  IF lex_peek(l) = "="
  THEN [l |-> lex_advance(l), token |-> Tk("GreaterEqual")]
  ELSE [l |-> l, token |-> Tk("Greater")]

\* 267-275: reached only when the next character doubles the first
operator_token(c, l) ==
  CASE c = "=" -> equals_token(l)
    [] c = "!" -> bang_token(l)
    [] c = "<" -> less_token(l)
    [] c = ">" -> greater_token(l)
    [] c = "&" -> [l |-> lex_advance(l), token |-> Tk("And")]
    [] c = "|" -> [l |-> lex_advance(l), token |-> Tk("Or")]

SingleCharTokens ==
  [c \in {"+", "-", "*", "/", "%", "(", ")", "{", "}", "[", "]", ";", ",", "."}
     |-> CASE c = "+" -> "Plus"
           [] c = "-" -> "Minus"
           [] c = "*" -> "Star"
           [] c = "/" -> "Slash"
           [] c = "%" -> "Percent"
           [] c = "(" -> "OpenParen"
           [] c = ")" -> "CloseParen"
           [] c = "{" -> "OpenBrace"
           [] c = "}" -> "CloseBrace"
           [] c = "[" -> "OpenBracket"
           [] c = "]" -> "CloseBracket"
           [] c = ";" -> "Semicolon"
           [] c = "," -> "Comma"
           [] c = "." -> "Dot"]

\* lexer.rs 191-304: one pass of the loop
next_token(l0) ==
  LET ls   == skip_whitespace(l0)
      line == ls.line
      col  == ls.col
      ch   == lex_peek(ls)
      l    == lex_advance(ls)
      Tok(r) == [kind |-> "Token", l |-> r.l, sp |-> spanned(r.token, line, col)]
  IN  IF ch = None
      THEN [kind |-> "Eof", l |-> l, sp |-> spanned(Tk("Eof"), line, col)]
      ELSE IF ch \in DOMAIN SingleCharTokens
      THEN Tok([l |-> l, token |-> Tk(SingleCharTokens[ch])])
      ELSE IF ch \in {"=", "!", "<", ">"}
              \/ (ch = "&" /\ lex_peek(l) = "&")
              \/ (ch = "|" /\ lex_peek(l) = "|")
      THEN Tok(operator_token(ch, l))
      ELSE IF ch = "$"
      THEN IF lex_peek(l) # None
           THEN IF is_alphabetic(lex_peek(l)) \/ lex_peek(l) = "_"
                THEN LET r == read_identifier(lex_advance(l), lex_peek(l))
                     IN  Tok([l |-> r.l, token |-> TkV("Variable", r.ident)])
                ELSE [kind |-> "Err", l |-> l,
                      err |-> [msg |-> "Invalid variable name at",
                               line |-> line, col |-> col]]
           ELSE [kind |-> "Err", l |-> l,
                 err |-> [msg |-> "Unexpected $ at end of input"]]
      ELSE IF ch \in {"'", "\""}
      THEN Tok(read_string(l, ch))
      ELSE IF is_ascii_digit(ch)
      THEN LET r == read_number(l, ch)
           IN  IF r.panic THEN [kind |-> "Panic", l |-> r.l] ELSE Tok(r)
      ELSE IF is_alphabetic(ch) \/ ch = "_"
      THEN LET r == read_identifier(l, ch)
           IN  Tok([l |-> r.l, token |-> keyword_or_ident(r.ident)])
      ELSE [kind |-> "Err", l |-> l,
            err |-> [msg |-> "Unexpected character", c |-> ch,
                     line |-> line, col |-> col]]

(***************************************************************************)
(* AST (ast.rs).  Option<T> is a sequence of at most one element.          *)
(***************************************************************************)
NoneOpt == <<>>

Some(x) == <<x>>

Lit(k, v) == [k |-> k, v |-> v]

BinaryOp(left, op, right) ==
  [k |-> "BinaryOp", left |-> left, op |-> op, right |-> right]

UnaryOp(op, expr) == [k |-> "UnaryOp", op |-> op, expr |-> expr]

Assign(variable, value) ==
  [k |-> "Assign", variable |-> variable, value |-> value]

FunctionCall(name, args) == [k |-> "FunctionCall", name |-> name, args |-> args]

ArrayAccess(array, index) ==
  [k |-> "ArrayAccess", array |-> array, index |-> index]

ArrayEntry(key, value) == [key |-> key, value |-> value]

ArrayLiteral(entries) == [k |-> "ArrayLiteral", entries |-> entries]

Echo(exprs) == [k |-> "Echo", exprs |-> exprs]

ExprStmt(expr) == [k |-> "ExprStmt", expr |-> expr]

If(condition, then_block, elseif_blocks, else_block) ==
  [k |-> "If", condition |-> condition, then_block |-> then_block,
   elseif_blocks |-> elseif_blocks, else_block |-> else_block]

While(condition, body) == [k |-> "While", condition |-> condition, body |-> body]

For(init, condition, update, body) ==
  [k |-> "For", init |-> init, condition |-> condition, update |-> update,
   body |-> body]

FunctionDef(name, params, body) ==
  [k |-> "FunctionDef", name |-> name, params |-> params, body |-> body]

Return(expr) == [k |-> "Return", expr |-> expr]

(***************************************************************************)
(* Parser cursor (parser.rs 10-35).  A parser value p is [tokens, pos].    *)
(* Indexing tokens past the end panics; InRange is the condition under     *)
(* which a read of the cursor does not.                                    *)
(***************************************************************************)
Parser_new(toks) == [tokens |-> toks, pos |-> 0]

InRange(p) == p.pos < Len(p.tokens)

par_peek(p) == p.tokens[p.pos + 1].token

\* advance that returns the token and leaves the cursor where it is
par_advance_stays(p) == p

par_advance(p) == [p EXCEPT !.pos = @ + 1]

at(p, token) == par_peek(p) = token

\* the position the message of a failed expect prints: self.pos, read after
\* advance() has moved the cursor
expect_position(p_before, p_after) == p_after.pos

\* expect that takes whatever token is under the cursor
expect_anything(p, expected) == [ok |-> TRUE, p |-> par_advance(p)]

expect(p, expected) ==
  LET tok == par_peek(p)
      p1  == par_advance(p)
  IN  IF tok = expected
      THEN [ok |-> TRUE, p |-> p1]
      ELSE [ok |-> FALSE, p |-> p1,
            err |-> [msg |-> "Expected", expected |-> expected, got |-> tok,
                     at |-> expect_position(p, p1)]]

(***************************************************************************)
(* The parser as a machine.  `stack` holds one frame per active call of a  *)
(* parse function: its name, the place it resumes at, and its locals.  A   *)
(* step of a function is a transition: stay in the function (Goto), call   *)
(* another one (Call), become another one (TailCall, where the code gives  *)
(* the callee's result as its own), return a value (Ret), fail (Failure:   *)
(* `?` carries the Err up to parse's caller), or panic.  `entered` is a    *)
(* history variable: for each active call, the cursor index it was         *)
(* entered at.                                                             *)
(***************************************************************************)
Goto(p, f) == [op |-> "goto", p |-> p, f |-> f]

Call(p, f, fn) == [op |-> "call", p |-> p, f |-> f, fn |-> fn]

TailCall(p, fn) == [op |-> "tail", p |-> p, fn |-> fn]

Ret(p, v) == [op |-> "ret", p |-> p, v |-> v]

Failure(p, err) == [op |-> "err", p |-> p, err |-> err]

Panic(p) == [op |-> "panic", p |-> p]

\* a read of tokens[pos]
Read(p, t) == IF InRange(p) THEN t ELSE Panic(p)

\* `self.expect(expected)?;` followed by transition t, which starts from the
\* parser after the expected token, par_advance(p)
Expect(p, expected, t) ==
  Read(p, IF expect(p, expected).ok THEN t
          ELSE Failure(expect(p, expected).p, expect(p, expected).err))

NewFrame(fn) == [fn |-> fn, pc |-> "start"]

(***************************************************************************)
(* Statements (parser.rs 39-180).  Each step function takes the frame f of *)
(* the running call, the parser p and the value r the last callee          *)
(* returned, and gives the transition.  A step advances the cursor at most *)
(* once.                                                                   *)
(***************************************************************************)
\* parser.rs 39-47
parse_step(f, p, r) ==
  LET Loop(stmts) ==
        Read(p, IF at(p, Tk("Eof")) THEN Ret(p, stmts)
                ELSE Call(p, [fn |-> "parse", pc |-> "push", stmts |-> stmts],
                          "parse_stmt"))
  IN  CASE f.pc = "start" ->
             Expect(p, Tk("OpenTag"),
                    Goto(par_advance(p),
                         [fn |-> "parse", pc |-> "loop", stmts |-> <<>>]))
        [] f.pc = "loop" -> Loop(f.stmts)
        [] f.pc = "push" -> Loop(Append(f.stmts, r))

\* parser.rs 51-65
parse_stmt_step(f, p, r) ==
  CASE f.pc = "start" ->
         Read(p, CASE par_peek(p) = Tk("Echo") -> TailCall(p, "parse_echo")
                   [] par_peek(p) = Tk("If") -> TailCall(p, "parse_if")
                   [] par_peek(p) = Tk("While") -> TailCall(p, "parse_while")
                   [] par_peek(p) = Tk("For") -> TailCall(p, "parse_for")
                   [] par_peek(p) = Tk("Function") ->
                        TailCall(p, "parse_function_def")
                   [] par_peek(p) = Tk("Return") -> TailCall(p, "parse_return")
                   [] OTHER ->
                        Call(p, [fn |-> "parse_stmt", pc |-> "semi"],
                             "parse_expr"))
    [] f.pc = "semi" ->
         Expect(p, Tk("Semicolon"), Ret(par_advance(p), ExprStmt(r)))

\* parser.rs 67-76
parse_echo_step(f, p, r) ==
  CASE f.pc = "start" ->
         Read(p, Call(par_advance(p),
                      [fn |-> "parse_echo", pc |-> "more", exprs |-> <<>>],
                      "parse_expr"))
    [] f.pc = "more" ->
         LET exprs == Append(f.exprs, r)
         IN  Read(p, IF at(p, Tk("Comma"))
                     THEN Call(par_advance(p),
                               [fn |-> "parse_echo", pc |-> "more",
                                exprs |-> exprs], "parse_expr")
                     ELSE Expect(p, Tk("Semicolon"),
                                 Ret(par_advance(p), Echo(exprs))))

\* parser.rs 95: elseif_blocks.push((cond, block))
push_elseif_front(elseif_blocks, cond, block) ==
  <<<<cond, block>>>> \o elseif_blocks

push_elseif(elseif_blocks, cond, block) == Append(elseif_blocks, <<cond, block>>)

\* parser.rs 78-106
parse_if_step(f, p, r) ==
  LET Chain(condition, then_block, elseif_blocks) ==
        Read(p, IF at(p, Tk("Elseif"))
                THEN Goto(par_advance(p),
                          [fn |-> "parse_if", pc |-> "elseif_open",
                           condition |-> condition, then_block |-> then_block,
                           elseif_blocks |-> elseif_blocks])
                ELSE IF at(p, Tk("Else"))
                THEN Call(par_advance(p),
                          [fn |-> "parse_if", pc |-> "else",
                           condition |-> condition, then_block |-> then_block,
                           elseif_blocks |-> elseif_blocks], "parse_block")
                ELSE Ret(p, If(condition, then_block, elseif_blocks, NoneOpt)))
  IN  CASE f.pc = "start" ->
             Read(p, Goto(par_advance(p), [fn |-> "parse_if", pc |-> "open"]))
        [] f.pc = "open" ->
             Expect(p, Tk("OpenParen"),
                    Call(par_advance(p), [fn |-> "parse_if", pc |-> "close"],
                         "parse_expr"))
        [] f.pc = "close" ->
             Expect(p, Tk("CloseParen"),
                    Call(par_advance(p),
                         [fn |-> "parse_if", pc |-> "then", condition |-> r],
                         "parse_block"))
        [] f.pc = "then" -> Chain(f.condition, r, <<>>)
        [] f.pc = "elseif_open" ->
             Expect(p, Tk("OpenParen"),
                    Call(par_advance(p), [f EXCEPT !.pc = "elseif_close"],
                         "parse_expr"))
        [] f.pc = "elseif_close" ->
             Expect(p, Tk("CloseParen"),
                    Call(par_advance(p),
                         [fn |-> "parse_if", pc |-> "elseif_block",
                          condition |-> f.condition,
                          then_block |-> f.then_block,
                          elseif_blocks |-> f.elseif_blocks, cond |-> r],
                         "parse_block"))
        [] f.pc = "elseif_block" ->
             Chain(f.condition, f.then_block,
                   push_elseif(f.elseif_blocks, f.cond, r))
        [] f.pc = "else" ->
             Ret(p, If(f.condition, f.then_block, f.elseif_blocks, Some(r)))

\* parser.rs 108-115
parse_while_step(f, p, r) ==
  CASE f.pc = "start" ->
         Read(p, Goto(par_advance(p), [fn |-> "parse_while", pc |-> "open"]))
    [] f.pc = "open" ->
         Expect(p, Tk("OpenParen"),
                Call(par_advance(p), [fn |-> "parse_while", pc |-> "close"],
                     "parse_expr"))
    [] f.pc = "close" ->
         Expect(p, Tk("CloseParen"),
                Call(par_advance(p),
                     [fn |-> "parse_while", pc |-> "body", condition |-> r],
                     "parse_block"))
    [] f.pc = "body" -> Ret(p, While(f.condition, r))

\* parser.rs 117-132
parse_for_step(f, p, r) ==
  LET p1 == par_advance(p)
      Semi1(init) ==
        Expect(p, Tk("Semicolon"),
               Read(p1, IF at(p1, Tk("Semicolon"))
                        THEN Goto(p1, [fn |-> "parse_for", pc |-> "semi2",
                                       init |-> init, condition |-> NoneOpt])
                        ELSE Call(p1, [fn |-> "parse_for", pc |-> "condition",
                                       init |-> init], "parse_expr")))
      Semi2(init, condition) ==
        Expect(p, Tk("Semicolon"),
               Read(p1, IF at(p1, Tk("CloseParen"))
                        THEN Goto(p1, [fn |-> "parse_for", pc |-> "close",
                                       init |-> init, condition |-> condition,
                                       update |-> NoneOpt])
                        ELSE Call(p1, [fn |-> "parse_for", pc |-> "update",
                                       init |-> init, condition |-> condition],
                                  "parse_expr")))
      Close(init, condition, update) ==
        Expect(p, Tk("CloseParen"),
               Call(p1, [fn |-> "parse_for", pc |-> "body", init |-> init,
                         condition |-> condition, update |-> update],
                    "parse_block"))
  IN  CASE f.pc = "start" ->
             Read(p, Goto(p1, [fn |-> "parse_for", pc |-> "open"]))
        [] f.pc = "open" ->
             Expect(p, Tk("OpenParen"),
                    Read(p1, IF at(p1, Tk("Semicolon"))
                             THEN Goto(p1, [fn |-> "parse_for", pc |-> "semi1",
                                            init |-> NoneOpt])
                             ELSE Call(p1, [fn |-> "parse_for", pc |-> "init"],
                                       "parse_expr")))
        [] f.pc = "semi1" -> Semi1(f.init)
        [] f.pc = "init" -> Semi1(Some(r))
        [] f.pc = "semi2" -> Semi2(f.init, f.condition)
        [] f.pc = "condition" -> Semi2(f.init, Some(r))
        [] f.pc = "close" -> Close(f.init, f.condition, f.update)
        [] f.pc = "update" -> Close(f.init, f.condition, Some(r))
        [] f.pc = "body" -> Ret(p, For(f.init, f.condition, f.update, r))

\* parser.rs 134-159
parse_function_def_step(f, p, r) ==
  LET p1 == par_advance(p)
  IN  CASE f.pc = "start" ->
             Read(p, Goto(p1, [fn |-> "parse_function_def", pc |-> "name"]))
        [] f.pc = "name" ->
             Read(p, IF par_peek(p).t = "Identifier"
                     THEN Goto(p1, [fn |-> "parse_function_def", pc |-> "open",
                                    name |-> par_peek(p).v])
                     ELSE Failure(p1, [msg |-> "Expected function name, got",
                                       got |-> par_peek(p)]))
        [] f.pc = "open" ->
             Expect(p, Tk("OpenParen"),
                    Read(p1, IF ~at(p1, Tk("CloseParen"))
                             THEN Goto(p1, [fn |-> "parse_function_def",
                                            pc |-> "param", name |-> f.name,
                                            params |-> <<>>])
                             ELSE Goto(p1, [fn |-> "parse_function_def",
                                            pc |-> "close", name |-> f.name,
                                            params |-> <<>>])))
        [] f.pc = "param" ->
             Read(p, IF par_peek(p).t = "Variable"
                     THEN Read(p1,
                            IF at(p1, Tk("Comma"))
                            THEN Goto(p1, [fn |-> "parse_function_def",
                                           pc |-> "comma", name |-> f.name,
                                           params |-> Append(f.params,
                                                             par_peek(p).v)])
                            ELSE Goto(p1, [fn |-> "parse_function_def",
                                           pc |-> "close", name |-> f.name,
                                           params |-> Append(f.params,
                                                             par_peek(p).v)]))
                     ELSE Failure(p1, [msg |-> "Expected parameter name, got",
                                       got |-> par_peek(p)]))
        [] f.pc = "comma" -> Read(p, Goto(p1, [f EXCEPT !.pc = "param"]))
        [] f.pc = "close" ->
             Expect(p, Tk("CloseParen"),
                    Call(p1, [f EXCEPT !.pc = "body"], "parse_block"))
        [] f.pc = "body" -> Ret(p, FunctionDef(f.name, f.params, r))

\* parser.rs 161-170
parse_return_step(f, p, r) ==
  CASE f.pc = "start" ->
         Read(p, Goto(par_advance(p), [fn |-> "parse_return", pc |-> "value"]))
    [] f.pc = "value" ->
         Read(p, IF at(p, Tk("Semicolon"))
                 THEN Ret(par_advance(p), Return(NoneOpt))
                 ELSE Call(p, [fn |-> "parse_return", pc |-> "semi"],
                           "parse_expr"))
    [] f.pc = "semi" ->
         Expect(p, Tk("Semicolon"), Ret(par_advance(p), Return(Some(r))))

\* parser.rs 172-180
parse_block_step(f, p, r) ==
  LET Loop(stmts) ==
        Read(p, IF ~at(p, Tk("CloseBrace"))
                THEN Call(p, [fn |-> "parse_block", pc |-> "push",
                              stmts |-> stmts], "parse_stmt")
                ELSE Expect(p, Tk("CloseBrace"), Ret(par_advance(p), stmts)))
  IN  CASE f.pc = "start" ->
             Expect(p, Tk("OpenBrace"),
                    Goto(par_advance(p),
                         [fn |-> "parse_block", pc |-> "loop", stmts |-> <<>>]))
        [] f.pc = "loop" -> Loop(f.stmts)
        [] f.pc = "push" -> Loop(Append(f.stmts, r))

(***************************************************************************)
(* Expressions (parser.rs 184-428)                                         *)
(***************************************************************************)
\* parser.rs 184-186
parse_expr_step(f, p, r) == TailCall(p, "parse_assignment")

\* the match that takes every target it does not know for an array element
assignment_of_any(expr, value) ==
  CASE expr.k = "Variable" -> [ok |-> TRUE, v |-> Assign(expr.v, value)]
    [] OTHER -> [ok |-> TRUE, v |-> Assign("__array_set", value)]

\* parser.rs 194-206: the assignment built from the parsed target
assignment_of(expr, value) ==
  CASE expr.k = "Variable" -> [ok |-> TRUE, v |-> Assign(expr.v, value)]
    [] expr.k = "ArrayAccess" -> [ok |-> TRUE, v |-> Assign("__array_set", value)]
    [] OTHER -> [ok |-> FALSE, err |-> [msg |-> "Invalid assignment target"]]

\* parse_assignment that parses the value of `=` with parse_or, not with
\* itself
parse_assignment_step_flat(f, p, r) ==
  CASE f.pc = "start" ->
         Call(p, [fn |-> "parse_assignment", pc |-> "target"], "parse_or")
    [] f.pc = "target" ->
         Read(p, IF at(p, Tk("Assign"))
                 THEN Call(par_advance(p),
                           [fn |-> "parse_assignment", pc |-> "value",
                            expr |-> r], "parse_or")
                 ELSE Ret(p, r))
    [] f.pc = "value" ->
         IF assignment_of(f.expr, r).ok
         THEN Ret(p, assignment_of(f.expr, r).v)
         ELSE Failure(p, assignment_of(f.expr, r).err)

\* parser.rs 188-210
parse_assignment_step(f, p, r) ==
  CASE f.pc = "start" ->
         Call(p, [fn |-> "parse_assignment", pc |-> "target"], "parse_or")
    [] f.pc = "target" ->
         Read(p, IF at(p, Tk("Assign"))
                 THEN Call(par_advance(p),
                           [fn |-> "parse_assignment", pc |-> "value",
                            expr |-> r], "parse_assignment")
                 ELSE Ret(p, r))
    [] f.pc = "value" ->
         IF assignment_of(f.expr, r).ok
         THEN Ret(p, assignment_of(f.expr, r).v)
         ELSE Failure(p, assignment_of(f.expr, r).err)

NoOp == "NoOp"

\* the operator each binary tier folds, by the token under the cursor
or_op(t) == IF t = Tk("Or") THEN "Or" ELSE NoOp

and_op(t) == IF t = Tk("And") THEN "And" ELSE NoOp

equality_op(t) ==
  CASE t = Tk("Equal") -> "Equal"
    [] t = Tk("Identical") -> "Identical"
    [] t = Tk("NotEqual") -> "NotEqual"
    [] t = Tk("NotIdentical") -> "NotIdentical"
    [] OTHER -> NoOp

comparison_op(t) ==
  CASE t = Tk("Less") -> "Less"
    [] t = Tk("LessEqual") -> "LessEqual"
    [] t = Tk("Greater") -> "Greater"
    [] t = Tk("GreaterEqual") -> "GreaterEqual"
    [] OTHER -> NoOp

concat_op(t) == IF t = Tk("Dot") THEN "Concat" ELSE NoOp

additive_op(t) ==
  CASE t = Tk("Plus") -> "Add"
    [] t = Tk("Minus") -> "Sub"
    [] OTHER -> NoOp

multiplicative_op(t) ==
  CASE t = Tk("Star") -> "Mul"
    [] t = Tk("Slash") -> "Div"
    [] t = Tk("Percent") -> "Mod"
    [] OTHER -> NoOp

\* operand parsers with the concatenation tier below the additive one
operand_of_concat_tighter(fn) ==
  CASE fn = "parse_or" -> "parse_and"
    [] fn = "parse_and" -> "parse_equality"
    [] fn = "parse_equality" -> "parse_comparison"
    [] fn = "parse_comparison" -> "parse_additive"
    [] fn = "parse_additive" -> "parse_concat"
    [] fn = "parse_concat" -> "parse_multiplicative"
    [] fn = "parse_multiplicative" -> "parse_unary"

\* the operand parser each binary tier calls
operand_of(fn) ==
  CASE fn = "parse_or" -> "parse_and"
    [] fn = "parse_and" -> "parse_equality"
    [] fn = "parse_equality" -> "parse_comparison"
    [] fn = "parse_comparison" -> "parse_concat"
    [] fn = "parse_concat" -> "parse_additive"
    [] fn = "parse_additive" -> "parse_multiplicative"
    [] fn = "parse_multiplicative" -> "parse_unary"

\* the shape shared by parse_or .. parse_multiplicative: an operand, then
\* while the cursor is at one of the tier's operators, consume it, parse the
\* next operand and fold to the left.  op is the operator at p, or NoOp.
fold_left(left, op, right) == BinaryOp(left, op, right)

binary_tier(f, p, r, op) ==
  LET Loop(left) ==
        Read(p, IF op # NoOp
                THEN Call(par_advance(p),
                          [fn |-> f.fn, pc |-> "right", left |-> left,
                           op |-> op], operand_of(f.fn))
                ELSE Ret(p, left))
  IN  CASE f.pc = "start" ->
             Call(p, [fn |-> f.fn, pc |-> "left"], operand_of(f.fn))
        [] f.pc = "left" -> Loop(r)
        [] f.pc = "right" -> Loop(fold_left(f.left, f.op, r))

\* parser.rs 212-224
parse_or_step(f, p, r) == binary_tier(f, p, r, or_op(par_peek(p)))

\* parser.rs 226-238
parse_and_step(f, p, r) == binary_tier(f, p, r, and_op(par_peek(p)))

\* parser.rs 240-255
parse_equality_step(f, p, r) == binary_tier(f, p, r, equality_op(par_peek(p)))

\* parser.rs 257-272
parse_comparison_step(f, p, r) == binary_tier(f, p, r, comparison_op(par_peek(p)))

\* parser.rs 274-286
parse_concat_step(f, p, r) == binary_tier(f, p, r, concat_op(par_peek(p)))

\* parser.rs 288-301
parse_additive_step(f, p, r) == binary_tier(f, p, r, additive_op(par_peek(p)))

\* parser.rs 303-317
parse_multiplicative_step(f, p, r) ==
  binary_tier(f, p, r, multiplicative_op(par_peek(p)))

\* parser.rs 319-333
parse_unary_step(f, p, r) ==
  CASE f.pc = "start" ->
         Read(p, CASE par_peek(p) = Tk("Minus") ->
                        Call(par_advance(p),
                             [fn |-> "parse_unary", pc |-> "operand",
                              op |-> "Negate"], "parse_unary")
                   [] par_peek(p) = Tk("Not") ->
                        Call(par_advance(p),
                             [fn |-> "parse_unary", pc |-> "operand",
                              op |-> "Not"], "parse_unary")
                   [] OTHER -> TailCall(p, "parse_postfix"))
    [] f.pc = "operand" -> Ret(p, UnaryOp(f.op, r))

\* parser.rs 335-353
parse_postfix_step(f, p, r) ==
  LET Loop(expr) ==
        Read(p, IF at(p, Tk("OpenBracket"))
                THEN Call(par_advance(p),
                          [fn |-> "parse_postfix", pc |-> "index",
                           expr |-> expr], "parse_expr")
                ELSE Ret(p, expr))
  IN  CASE f.pc = "start" ->
             Call(p, [fn |-> "parse_postfix", pc |-> "primary"],
                  "parse_primary")
        [] f.pc = "primary" -> Loop(r)
        [] f.pc = "index" ->
             Expect(p, Tk("CloseBracket"),
                    Goto(par_advance(p),
                         [fn |-> "parse_postfix", pc |-> "loop",
                          expr |-> ArrayAccess(f.expr, r)]))
        [] f.pc = "loop" -> Loop(f.expr)

\* parser.rs 357-367: the literal and variable arms
LiteralKinds ==
  {"Integer", "Float", "StringLiteral", "True", "False", "Null", "Variable"}

literal_of(t) ==
  CASE t.t = "Integer" -> Lit("Integer", t.v)
    [] t.t = "Float" -> Lit("Float", t.v)
    [] t.t = "StringLiteral" -> Lit("String", t.v)
    [] t.t = "True" -> Lit("Bool", "true")
    [] t.t = "False" -> Lit("Bool", "false")
    [] t.t = "Null" -> [k |-> "Null"]
    [] t.t = "Variable" -> Lit("Variable", t.v)

\* parser.rs 406-412: the entry pushed for one array element
key_value_entry_swapped(first, value) == ArrayEntry(Some(value), first)

key_value_entry(first, value) == ArrayEntry(Some(first), value)

value_entry(first) == ArrayEntry(NoneOpt, first)

\* parser.rs 355-428
parse_primary_step(f, p, r) ==
  LET p1 == par_advance(p)
      \* 413-422: after an element has been pushed
      AfterEntry(entries) ==
        Read(p, IF at(p, Tk("Comma"))
                THEN Goto(p1, [fn |-> "parse_primary", pc |-> "after_comma",
                               entries |-> entries])
                ELSE Expect(p, Tk("CloseBracket"),
                            Ret(p1, ArrayLiteral(entries))))
      \* 378-386: after an argument has been pushed
      AfterArg(name, args) ==
        Read(p, IF at(p, Tk("Comma"))
                THEN Call(p1, [fn |-> "parse_primary", pc |-> "arg",
                               name |-> name, args |-> args], "parse_expr")
                ELSE Expect(p, Tk("CloseParen"),
                            Ret(p1, FunctionCall(name, args))))
  IN  CASE f.pc = "start" ->
             Read(p,
               CASE par_peek(p).t \in LiteralKinds ->
                      Ret(p1, literal_of(par_peek(p)))
                 [] par_peek(p).t = "Identifier" ->
                      Goto(p1, [fn |-> "parse_primary", pc |-> "identifier",
                                name |-> par_peek(p).v])
                 [] par_peek(p).t = "OpenParen" ->
                      Call(p1, [fn |-> "parse_primary", pc |-> "paren"],
                           "parse_expr")
                 [] par_peek(p).t = "OpenBracket" ->
                      Goto(p1, [fn |-> "parse_primary", pc |-> "array_open"])
                 [] OTHER ->
                      Failure(p, [msg |-> "Unexpected token",
                                  got |-> par_peek(p)]))
        [] f.pc = "identifier" ->
             Read(p, IF at(p, Tk("OpenParen"))
                     THEN Goto(p1, [fn |-> "parse_primary", pc |-> "args_open",
                                    name |-> f.name])
                     ELSE Failure(p, [msg |-> "Unexpected identifier (not a function call)",
                                      name |-> f.name]))
        [] f.pc = "args_open" ->
             Read(p, IF ~at(p, Tk("CloseParen"))
                     THEN Call(p, [fn |-> "parse_primary", pc |-> "arg",
                                   name |-> f.name, args |-> <<>>],
                               "parse_expr")
                     ELSE Expect(p, Tk("CloseParen"),
                                 Ret(p1, FunctionCall(f.name, <<>>))))
        [] f.pc = "arg" -> AfterArg(f.name, Append(f.args, r))
        [] f.pc = "paren" -> Expect(p, Tk("CloseParen"), Ret(p1, r))
        [] f.pc = "array_open" ->
             Read(p, IF ~at(p, Tk("CloseBracket"))
                     THEN Call(p, [fn |-> "parse_primary", pc |-> "first",
                                   entries |-> <<>>], "parse_expr")
                     ELSE Expect(p, Tk("CloseBracket"),
                                 Ret(p1, ArrayLiteral(<<>>))))
        [] f.pc = "first" ->
             Read(p, IF at(p, Tk("Arrow"))
                     THEN Call(p1, [fn |-> "parse_primary", pc |-> "value",
                                    entries |-> f.entries, first |-> r],
                               "parse_expr")
                     ELSE AfterEntry(Append(f.entries, value_entry(r))))
        [] f.pc = "value" ->
             AfterEntry(Append(f.entries, key_value_entry(f.first, r)))
        [] f.pc = "after_comma" ->
             Read(p, IF at(p, Tk("CloseBracket"))
                     THEN Expect(p, Tk("CloseBracket"),
                                 Ret(p1, ArrayLiteral(f.entries)))
                     ELSE Call(p, [fn |-> "parse_primary", pc |-> "first",
                                   entries |-> f.entries], "parse_expr"))

(***************************************************************************)
(* The machine's steps                                                     *)
(***************************************************************************)
Top == stack[Len(stack)]

\* `ret` holds what the last call returned: a list of statements from parse
\* and parse_block, a statement or an expression from the others
ListParsers == {"parse", "parse_block"}

returned == IF "list" \in DOMAIN ret THEN ret.list ELSE ret.node

ReplaceTop(f) == [stack EXCEPT ![Len(stack)] = f]

Apply(t) ==
  /\ parser' = t.p
  /\ CASE t.op = "goto" ->
            /\ stack' = ReplaceTop(t.f)
            /\ UNCHANGED <<ret, parseResult, entered>>
       [] t.op = "call" ->
            /\ stack' = Append(ReplaceTop(t.f), NewFrame(t.fn))
            /\ entered' = Append(entered, t.p.pos)
            /\ UNCHANGED <<ret, parseResult>>
       [] t.op = "tail" ->
            /\ stack' = ReplaceTop(NewFrame(t.fn))
            /\ entered' = [entered EXCEPT ![Len(entered)] = t.p.pos]
            /\ UNCHANGED <<ret, parseResult>>
       [] t.op = "ret" ->
            /\ stack' = SubSeq(stack, 1, Len(stack) - 1)
            /\ entered' = SubSeq(entered, 1, Len(entered) - 1)
            /\ ret' = IF Top.fn \in ListParsers THEN [list |-> t.v]
                       ELSE [node |-> t.v]
            /\ parseResult' = IF Len(stack) = 1
                              THEN [kind |-> "Ok", stmts |-> t.v]
                              ELSE parseResult
       [] t.op = "err" ->
            /\ stack' = <<>>
            /\ entered' = <<>>
            /\ parseResult' = [kind |-> "Err", err |-> t.err]
            /\ UNCHANGED ret
       [] t.op = "panic" ->
            /\ stack' = <<>>
            /\ entered' = <<>>
            /\ parseResult' = [kind |-> "Panic"]
            /\ UNCHANGED ret
  /\ UNCHANGED <<source, lexer, tokens, lexResult>>

Running(fn) ==
  /\ parseResult.kind = "Running"
  /\ stack # <<>>
  /\ Top.fn = fn

\* lexer.rs 170-189
tokenize_open_tag ==
  /\ lexResult.kind = "Start"
  /\ LET t == open_tag(lexer)
     IN  /\ lexer' = t.l
         /\ IF t.kind = "Token"
            THEN /\ tokens' = Append(tokens, t.sp)
                 /\ lexResult' = [kind |-> "Loop"]
            ELSE /\ tokens' = tokens
                 /\ lexResult' = IF t.kind = "Err"
                                 THEN [kind |-> "Err", err |-> t.err]
                                 ELSE [kind |-> "Panic"]
  /\ UNCHANGED <<source, parser, stack, ret, parseResult, entered>>

\* lexer.rs 191-305.  `tokens` is tokenize's local vector: returning moves it
\* into the result (or drops it), which leaves the local empty.
tokenize_loop ==
  /\ lexResult.kind = "Loop"
  /\ LET t == next_token(lexer)
     IN  /\ lexer' = t.l
         /\ CASE t.kind = "Token" ->
                   /\ tokens' = Append(tokens, t.sp)
                   /\ lexResult' = lexResult
              [] t.kind = "Eof" ->
                   /\ tokens' = <<>>
                   /\ lexResult' = [kind |-> "Ok", tokens |-> Append(tokens, t.sp)]
              [] t.kind = "Err" ->
                   /\ tokens' = <<>>
                   /\ lexResult' = [kind |-> "Err", err |-> t.err]
              [] t.kind = "Panic" ->
                   /\ tokens' = <<>>
                   /\ lexResult' = [kind |-> "Panic"]
  /\ UNCHANGED <<source, parser, stack, ret, parseResult, entered>>

\* main.rs 35-36: Parser::new(tokens), then the call of parse
main_parse ==
  /\ lexResult.kind = "Ok"
  /\ parseResult.kind = "NotStarted"
  /\ parser' = Parser_new(lexResult.tokens)
  /\ stack' = <<NewFrame("parse")>>
  /\ entered' = <<0>>
  /\ parseResult' = [kind |-> "Running"]
  /\ UNCHANGED <<source, lexer, tokens, lexResult, ret>>

parse == Running("parse") /\ Apply(parse_step(Top, parser, returned))

parse_stmt == Running("parse_stmt") /\ Apply(parse_stmt_step(Top, parser, returned))

parse_echo == Running("parse_echo") /\ Apply(parse_echo_step(Top, parser, returned))

parse_if == Running("parse_if") /\ Apply(parse_if_step(Top, parser, returned))

parse_while == Running("parse_while") /\ Apply(parse_while_step(Top, parser, returned))

parse_for == Running("parse_for") /\ Apply(parse_for_step(Top, parser, returned))

parse_function_def ==
  Running("parse_function_def") /\ Apply(parse_function_def_step(Top, parser, returned))

parse_return == Running("parse_return") /\ Apply(parse_return_step(Top, parser, returned))

parse_block == Running("parse_block") /\ Apply(parse_block_step(Top, parser, returned))

parse_expr == Running("parse_expr") /\ Apply(parse_expr_step(Top, parser, returned))

parse_assignment ==
  Running("parse_assignment") /\ Apply(parse_assignment_step(Top, parser, returned))

parse_or == Running("parse_or") /\ Apply(parse_or_step(Top, parser, returned))

parse_and == Running("parse_and") /\ Apply(parse_and_step(Top, parser, returned))

parse_equality ==
  Running("parse_equality") /\ Apply(parse_equality_step(Top, parser, returned))

parse_comparison ==
  Running("parse_comparison") /\ Apply(parse_comparison_step(Top, parser, returned))

parse_concat == Running("parse_concat") /\ Apply(parse_concat_step(Top, parser, returned))

parse_additive ==
  Running("parse_additive") /\ Apply(parse_additive_step(Top, parser, returned))

parse_multiplicative ==
  Running("parse_multiplicative")
  /\ Apply(parse_multiplicative_step(Top, parser, returned))

parse_unary == Running("parse_unary") /\ Apply(parse_unary_step(Top, parser, returned))

parse_postfix ==
  Running("parse_postfix") /\ Apply(parse_postfix_step(Top, parser, returned))

parse_primary ==
  Running("parse_primary") /\ Apply(parse_primary_step(Top, parser, returned))

Next ==
  \/ tokenize_open_tag
  \/ tokenize_loop
  \/ main_parse
  \/ parse
  \/ parse_stmt
  \/ parse_echo
  \/ parse_if
  \/ parse_while
  \/ parse_for
  \/ parse_function_def
  \/ parse_return
  \/ parse_block
  \/ parse_expr
  \/ parse_assignment
  \/ parse_or
  \/ parse_and
  \/ parse_equality
  \/ parse_comparison
  \/ parse_concat
  \/ parse_additive
  \/ parse_multiplicative
  \/ parse_unary
  \/ parse_postfix
  \/ parse_primary

(***************************************************************************)
(* Source texts.  A program is written as a sequence of lexemes; Spell     *)
(* gives the characters of a lexeme and Text the characters of a program.  *)
(***************************************************************************)
Spell(w) ==
  CASE w = "<?php" -> <<"<", "?", "p", "h", "p">>
    [] w = "echo" -> <<"e", "c", "h", "o">>
    [] w = "if" -> <<"i", "f">>
    [] w = "else" -> <<"e", "l", "s", "e">>
    [] w = "elseif" -> <<"e", "l", "s", "e", "i", "f">>
    [] w = "while" -> <<"w", "h", "i", "l", "e">>
    [] w = "for" -> <<"f", "o", "r">>
    [] w = "function" -> <<"f", "u", "n", "c", "t", "i", "o", "n">>
    [] w = "return" -> <<"r", "e", "t", "u", "r", "n">>
    [] w = "true" -> <<"t", "r", "u", "e">>
    [] w = "null" -> <<"n", "u", "l", "l">>
    [] w = "$a" -> <<"$", "a">>
    [] w = "$b" -> <<"$", "b">>
    [] w = "$c" -> <<"$", "c">>
    [] w = "$i" -> <<"$", "i">>
    [] w = "f" -> <<"f">>
    [] w = "==" -> <<"=", "=">>
    [] w = "===" -> <<"=", "=", "=">>
    [] w = "!=" -> <<"!", "=">>
    [] w = "!==" -> <<"!", "=", "=">>
    [] w = "<=" -> <<"<", "=">>
    [] w = ">=" -> <<">", "=">>
    [] w = "&&" -> <<"&", "&">>
    [] w = "||" -> <<"|", "|">>
    [] w = "=>" -> <<"=", ">">>
    [] w = "10" -> <<"1", "0">>
    [] w = "\"a\"" -> <<"\"", "a", "\"">>
    [] w = "1.5" -> <<"1", ".", "5">>
    [] OTHER -> <<w>>

RECURSIVE Flatten(_)
Flatten(ss) == IF ss = <<>> THEN <<>> ELSE Head(ss) \o Flatten(Tail(ss))

\* the lexemes, each preceded by sep
Text(lexemes, sep) ==
  Flatten([i \in 1..Len(lexemes) |-> sep \o Spell(lexemes[i])])

\* a program after the open tag, one blank between lexemes
Program(lexemes) == Spell("<?php") \o Text(lexemes, <<" ">>)

\* programs that between them use every statement and expression form
ExampleLexemes ==
  { <<"$a", "=", "10", ";", "echo", "$a", "+", "$b", ",", "1.5", ";",
      "if", "(", "$a", ">", "$b", ")", "{", "echo", "\"a\"", ";", "}",
      "elseif", "(", "$a", "<=", "$b", ")", "{", "}",
      "else", "{", "echo", "null", ";", "}">>,
    <<"function", "f", "(", "$a", ",", "$b", ")", "{",
      "return", "$a", "+", "$b", ";", "}",
      "echo", "f", "(", "5", ",", "3", ")", ";",
      "function", "f", "(", ")", "{", "return", ";", "}">>,
    <<"while", "(", "!", "$a", "&&", "true", "||", "$b", "==", "1", ")",
      "{", "$a", "[", "0", "]", "=", "-", "$a", "*", "2", ".", "$b", ";", "}",
      "for", "(", "$i", "=", "0", ";", "$i", "<", "3", ";",
      "$i", "=", "$i", "+", "1", ")", "{", "f", "(", ")", ";", "}",
      "for", "(", ";", ";", ")", "{", "}",
      "$a", "=", "[", "1", ",", "\"a\"", "=>", "(", "2", ")", ",", "]", ";">> }

Examples == {Program(ls) : ls \in ExampleLexemes}

\* the examples cut short after any lexeme, and with any one lexeme left out
TruncatedLexemes ==
  UNION {{SubSeq(ls, 1, n) : n \in 0..Len(ls)} : ls \in ExampleLexemes}

Truncated == {Program(ls) : ls \in TruncatedLexemes}

DamagedLexemes ==
  UNION {{SubSeq(ls, 1, n - 1) \o SubSeq(ls, n + 1, Len(ls)) :
            n \in 1..Len(ls)} : ls \in ExampleLexemes}

Damaged == {Program(ls) : ls \in DamagedLexemes}

SeqsUpTo(S, n) == UNION {[1..k -> S] : k \in 0..n}

\* operand (operator operand)* ; with the operands 1, 2, 3, ... in this order
BinaryOperators ==
  {"||", "&&", "==", "<", ".", "+", "-", "*"}

Operand(i) == <<"1", "2", "3", "4", "5", "6", "7", "8", "9">>[i]

BinaryExpr(ops) ==
  [i \in 1..(2 * Len(ops) + 1) |->
     IF i % 2 = 1 THEN Operand((i + 1) \div 2) ELSE ops[i \div 2]]

MaxOps == 3

BinaryExprLexemes ==
  {BinaryExpr(ops) \o <<";">> : ops \in SeqsUpTo(BinaryOperators, MaxOps)}

BinaryExprs == {Program(ls) : ls \in BinaryExprLexemes}

\* the expressions the specification names, each binary operator once, the
\* unary and postfix tiers under a binary operator, and the operators of
\* one tier mixed
NamedExprLexemes ==
  { <<"2", "+", "3", "*", "4", ";">>,
    <<"\"a\"", ".", "1", "+", "2", ";">>,
    <<"1", "-", "2", "-", "3", ";">>,
    <<"-", "1", "*", "2", ";">>,
    <<"!", "$a", "[", "1", "]", ";">>,
    <<"1", "-", "-", "2", ";">>,
    <<"1", "*", "2", "%", "3", "/", "4", "*", "5", ";">>,
    <<"1", "==", "2", "!==", "3", "!=", "4", "===", "5", ";">>,
    <<"1", "<", "2", ">=", "3", ">", "4", "<=", "5", ";">> }
  \cup {<<"$a", op, "$b", ";">> :
          op \in {"||", "&&", "==", "===", "!=", "!==", "<", "<=", ">", ">=",
                  ".", "+", "-", "*", "/", "%"}}

NamedExprs == {Program(ls) : ls \in NamedExprLexemes}

\* $v1 = $v2 = ... = e ;
MaxTargets == 3

AssignChainLexemes ==
  {Flatten([i \in 1..Len(vs) |-> <<vs[i], "=">>]) \o e \o <<";">> :
     vs \in SeqsUpTo({"$a", "$b"}, MaxTargets),
     e \in {<<"1">>, <<"1", "||", "2">>, <<"$c", "+", "1", "*", "2">>}}

AssignChains == {Program(ls) : ls \in AssignChainLexemes}

\* [ element , element ... ] ; where an element may be empty, with or
\* without a comma before the ]
MaxElems == 3

ArrayElements == {<<"1">>, <<"2">>, <<"1", "=>", "2">>, <<>>}

ArrayLiteralText(elems, trailing) ==
  <<"[">>
  \o Flatten([i \in 1..Len(elems) |->
                IF i = 1 THEN elems[i] ELSE <<",">> \o elems[i]])
  \o (IF trailing THEN <<",">> ELSE <<>>)
  \o <<"]", ";">>

ArrayLiteralLexemes ==
  {ArrayLiteralText(elems, trailing) :
     elems \in SeqsUpTo(ArrayElements, MaxElems), trailing \in BOOLEAN}

ArrayLiterals == {Program(ls) : ls \in ArrayLiteralLexemes}

\* if ( 0 ) { echo 0 ; } followed by clauses, the i-th being
\* elseif ( i ) { echo i ; } or else { echo i ; }
MaxClauses == 3

Clause(kind, i) ==
  IF kind = "elseif"
  THEN <<"elseif", "(", Operand(i), ")", "{", "echo", Operand(i), ";", "}">>
  ELSE <<"else", "{", "echo", Operand(i), ";", "}">>

IfChainLexemes ==
  {<<"if", "(", "0", ")", "{", "echo", "0", ";", "}">>
   \o Flatten([i \in 1..Len(kinds) |-> Clause(kinds[i], i)]) :
     kinds \in SeqsUpTo({"elseif", "else"}, MaxClauses)}

IfChains == {Program(ls) : ls \in IfChainLexemes}

\* every short sequence of these lexemes
MaxFuzz == 3

FuzzLexemes ==
  {"function", "f", "(", ")", "$a", ",", "1", "=", ";", "["}

FuzzLists == SeqsUpTo(FuzzLexemes, MaxFuzz)

FuzzSources == {Program(ls) : ls \in FuzzLists}

\* target = value ; for targets of every shape and values that parse and
\* values that do not
TargetShapes ==
  { [lex |-> <<"$a">>, shape |-> "Variable", name |-> "a"],
    [lex |-> <<"(", "$b", ")">>, shape |-> "Variable", name |-> "b"],
    [lex |-> <<"$a", "[", "0", "]">>, shape |-> "ArrayAccess"],
    [lex |-> <<"$a", "[", "0", "]", "[", "1", "]">>, shape |-> "ArrayAccess"],
    [lex |-> <<"f", "(", ")", "[", "$b", "]">>, shape |-> "ArrayAccess"],
    [lex |-> <<"1">>, shape |-> "Other"],
    [lex |-> <<"\"a\"">>, shape |-> "Other"],
    [lex |-> <<"null">>, shape |-> "Other"],
    [lex |-> <<"1", "+", "2">>, shape |-> "Other"],
    [lex |-> <<"$a", ".", "$b">>, shape |-> "Other"],
    [lex |-> <<"-", "$a">>, shape |-> "Other"],
    [lex |-> <<"!", "$a">>, shape |-> "Other"],
    [lex |-> <<"f", "(", "$a", ")">>, shape |-> "Other"],
    [lex |-> <<"[", "$a", "]">>, shape |-> "Other"],
    [lex |-> <<"(", "$a", "=", "1", ")">>, shape |-> "Other"] }

TargetValues == {<<"1">>, <<"$b", "+", "1">>, <<")">>, <<"f">>, <<"2", "=", "3">>}

TargetLexemes ==
  {((t.lex \o <<"=">>) \o v) \o <<";">> :
     t \in TargetShapes, v \in TargetValues}

TargetSources == {Program(ls) : ls \in TargetLexemes}

Sources ==
  Examples \cup NamedExprs \cup BinaryExprs \cup AssignChains
  \cup ArrayLiterals \cup IfChains \cup FuzzSources \cup Truncated \cup Damaged
  \cup TargetSources

(***************************************************************************)
(* Source texts for the lexer alone                                        *)
(***************************************************************************)
\* leading blanks and newlines, then a text that is the open tag, part of
\* it, something else, or a comment before the tag
MaxLead == 5

PrefixTails ==
  { <<>>, <<"<">>, <<"<", "?">>, <<"<", "?", "p">>, <<"<", "?", "p", "h">>,
    Spell("<?php"), <<"<", "?", "p", "h", "x">>, <<"x">>,
    <<"x", "x", "x", "x", "x">>,
    Spell("<?php") \o <<" ", "1", ";">>,
    <<"x">> \o Spell("<?php"),
    <<"/", "/", "c", "\n">> \o Spell("<?php"),
    <<"/", "*", "c", "*", "/">> \o Spell("<?php"),
    <<"#", "\n">> \o Spell("<?php") \o <<" ", "1", ";">> }

PrefixSources ==
  {lead \o tail : lead \in SeqsUpTo({" ", "\n"}, MaxLead), tail \in PrefixTails}

\* the open tag, then every short string of operator characters
MaxOpChars == 4

OpChars == {"=", "!", "<", ">", "&", "|"}

OperatorSources ==
  {Spell("<?php") \o ops : ops \in SeqsUpTo(OpChars, MaxOpChars)}

\* the open tag, then every short sequence of blanks, newlines, tokens and
\* comment delimiters
MaxPieces == 4

Pieces ==
  {<<" ">>, <<"\n">>, <<"$", "a">>, <<"1">>, <<"/", "/">>, <<"/", "*">>,
   <<"*", "/">>, <<"#">>}

BodySources ==
  {Spell("<?php") \o Flatten(ps) : ps \in SeqsUpTo(Pieces, MaxPieces)}

\* the open tag, a quote, then every short string of quotes, backslashes,
\* letters and newlines: literals that end, that do not, and what follows
MaxStr == 4

StrChars == {"\"", "'", "\\", "n", "t", "a", "\n"}

StringSources ==
  {(Spell("<?php") \o <<q>>) \o body :
     q \in {"\"", "'"}, body \in SeqsUpTo(StrChars, MaxStr)}

\* the open tag, a blank, then a digit-only literal: every short one, and
\* long ones on both sides of i64::MAX
MaxDigits == 3

LongNumerals ==
  { I64MaxDigits,
    <<"0", "0">> \o I64MaxDigits,
    SubSeq(I64MaxDigits, 1, 18) \o <<"8">>,
    SubSeq(I64MaxDigits, 1, 18) \o <<"6">>,
    <<"9", "3">> \o SubSeq(I64MaxDigits, 3, 19),
    SubSeq(I64MaxDigits, 1, 18),
    I64MaxDigits \o <<"0">>,
    [i \in 1..20 |-> "9"] }

IntegerSources ==
  {(Spell("<?php") \o <<" ">>) \o ds :
     ds \in LongNumerals
             \cup (SeqsUpTo({"0", "1", "9"}, MaxDigits) \ {<<>>})}

LexSources ==
  Examples \cup PrefixSources \cup OperatorSources \cup BodySources
  \cup StringSources \cup IntegerSources
  \cup {Program(<<"$a", "===", "$b">>)}

TypeInit ==
  /\ lexer = Lexer_new
  /\ tokens = <<>>
  /\ lexResult = [kind |-> "Start"]
  /\ parser = Parser_new(<<>>)
  /\ stack = <<>>
  /\ ret = [list |-> <<>>]
  /\ parseResult = [kind |-> "NotStarted"]
  /\ entered = <<>>

Init == source \in Sources /\ TypeInit

Spec == Init /\ [][Next]_vars

(***************************************************************************)
(* The parser alone, from the state main is in when tokenize has returned  *)
(* Ok (main.rs 35): the source is one of Sources and lexResult holds its   *)
(* tokens.  TokensOf writes those tokens down lexeme by lexeme, and         *)
(* TokensAgree, an invariant of Spec, says that they are the tokens         *)
(* tokenize returns and that the lexer is left at the end of the text.      *)
(***************************************************************************)
Lexemes ==
  ExampleLexemes \cup NamedExprLexemes \cup BinaryExprLexemes
  \cup AssignChainLexemes \cup ArrayLiteralLexemes \cup IfChainLexemes
  \cup FuzzLists \cup TruncatedLexemes \cup DamagedLexemes \cup TargetLexemes

\* the programs the parser alone is run on: every family of Sources but the
\* operator chains, whose loops NamedExprLexemes and ExampleLexemes run too
FairLexemes ==
  ExampleLexemes \cup NamedExprLexemes
  \cup AssignChainLexemes \cup ArrayLiteralLexemes \cup IfChainLexemes
  \cup FuzzLists \cup TruncatedLexemes \cup DamagedLexemes \cup TargetLexemes

\* the token of one lexeme: the arm of the token loop its first character
\* selects (lexer.rs 204-300)
TokenOf(w) ==
  LET cs == Spell(w)
      c == Head(cs)
  IN  CASE c = "$" -> TkV("Variable", Str(Tail(cs)))
        [] c = "\"" -> TkV("StringLiteral", Str(SubSeq(cs, 2, Len(cs) - 1)))
        [] c \in Digits ->
             IF \E i \in 1..Len(cs) : cs[i] = "."
             THEN TkV("Float", w)
             ELSE TkV("Integer", w)
        [] is_alphabetic(c) -> keyword_or_ident(w)
        [] w = "==" -> Tk("Equal")
        [] w = "===" -> Tk("Identical")
        [] w = "=>" -> Tk("Arrow")
        [] w = "=" -> Tk("Assign")
        [] w = "!=" -> Tk("NotEqual")
        [] w = "!==" -> Tk("NotIdentical")
        [] w = "!" -> Tk("Not")
        [] w = "<=" -> Tk("LessEqual")
        [] w = "<" -> Tk("Less")
        [] w = ">=" -> Tk("GreaterEqual")
        [] w = ">" -> Tk("Greater")
        [] w = "&&" -> Tk("And")
        [] w = "||" -> Tk("Or")
        [] OTHER -> Tk(SingleCharTokens[w])

\* the tokens of the lexemes ls, the first of them at column col: one blank
\* is before each lexeme, and Eof is where the text ends
RECURSIVE Spans(_, _, _)
Spans(ls, col, acc) ==
  IF ls = <<>>
  THEN Append(acc, spanned(Tk("Eof"), 1, col - 1))
  ELSE Spans(Tail(ls), col + Len(Spell(Head(ls))) + 1,
             Append(acc, spanned(TokenOf(Head(ls)), 1, col)))

TokensOf(ls) ==
  Spans(ls, Len(Spell("<?php")) + 2, <<spanned(Tk("OpenTag"), 1, 1)>>)

\* the lexer when tokenize has read the whole of a one-line text
LexerAtEnd(src) == [Lexer_new EXCEPT !.pos = Len(src), !.col = Len(src) + 1]

\* the lexemes of a program, read back from its text
RECURSIVE Split(_, _, _)
Split(cs, word, acc) ==
  IF cs = <<>>
  THEN IF word = <<>> THEN acc ELSE Append(acc, Str(word))
  ELSE IF Head(cs) = " "
       THEN Split(Tail(cs), <<>>, IF word = <<>> THEN acc ELSE Append(acc, Str(word)))
       ELSE Split(Tail(cs), Append(word, Head(cs)), acc)

LexemesOf(src) == Split(SubSeq(src, Len(Spell("<?php")) + 1, Len(src)), <<>>, <<>>)

TokensAgree ==
  lexResult.kind \in {"Ok", "Err", "Panic"} /\ parseResult.kind = "NotStarted" =>
    /\ lexResult = [kind |-> "Ok", tokens |-> TokensOf(LexemesOf(source))]
    /\ lexer = LexerAtEnd(source)
    /\ tokens = <<>>
    /\ LexemesOf(source) \in Lexemes

\* each program with its tokens
Tokenized == {[source |-> Program(ls), tokens |-> TokensOf(ls)] : ls \in FairLexemes}

InitFair ==
  /\ \E t \in Tokenized :
       /\ source = t.source
       /\ lexResult = [kind |-> "Ok", tokens |-> t.tokens]
  /\ lexer = LexerAtEnd(source)
  /\ tokens = <<>>
  /\ parser = Parser_new(<<>>)
  /\ stack = <<>>
  /\ ret = [list |-> <<>>]
  /\ parseResult = [kind |-> "NotStarted"]
  /\ entered = <<>>

NextParse ==
  \/ main_parse
  \/ parse
  \/ parse_stmt
  \/ parse_echo
  \/ parse_if
  \/ parse_while
  \/ parse_for
  \/ parse_function_def
  \/ parse_return
  \/ parse_block
  \/ parse_expr
  \/ parse_assignment
  \/ parse_or
  \/ parse_and
  \/ parse_equality
  \/ parse_comparison
  \/ parse_concat
  \/ parse_additive
  \/ parse_multiplicative
  \/ parse_unary
  \/ parse_postfix
  \/ parse_primary

\* main runs to its end: a step of the parser that can be taken is taken
SpecFair == InitFair /\ [][NextParse]_vars /\ WF_vars(NextParse)

\* tokenize alone, on the lexer's source texts
InitLex == source \in LexSources /\ TypeInit

NextLex == tokenize_open_tag \/ tokenize_loop

SpecLex == InitLex /\ [][NextLex]_vars

(***************************************************************************)
(* Properties of tokenize, under SpecLex                                   *)
(***************************************************************************)
LexDone == lexResult.kind \in {"Ok", "Err", "Panic"}

Max(S) == CHOOSE x \in S : \A y \in S : y <= x

\* the 1-based line and column of the character at 0-based offset n of src
LineAt(src, n) == 1 + Cardinality({i \in 1..n : src[i] = "\n"})

ColAt(src, n) ==
  LET newlines == {i \in 1..n : src[i] = "\n"}
  IN  IF newlines = {} THEN n + 1 ELSE n - Max(newlines) + 1

\* the number of whitespace characters src begins with
LeadLen(src) ==
  CHOOSE n \in 0..Len(src) :
    /\ \A i \in 1..n : src[i] \in Whitespace
    /\ n = Len(src) \/ src[n + 1] \notin Whitespace

\* src, after its leading whitespace, begins with <?php
BeginsWithTag(src) ==
  /\ LeadLen(src) + Len(OpenTagText) <= Len(src)
  /\ SubSeq(src, LeadLen(src) + 1, LeadLen(src) + Len(OpenTagText)) = OpenTagText

Kinds(ts) == [i \in 1..Len(ts) |-> ts[i].token.t]

IsPrefix(s, t) == Len(s) <= Len(t) /\ SubSeq(t, 1, Len(s)) = s

\* C1: when the text after the leading whitespace does not begin with <?php,
\* tokenize returns an error: it neither panics nor gets as far as a token.
C1_NoTagIsAnError ==
  ~BeginsWithTag(source) => lexResult.kind \in {"Start", "Err"} /\ tokens = <<>>

\* C2: tokenize succeeds only when the first non-whitespace content is <?php
\* (a comment before the tag is not skipped), and then the first token is
\* OpenTag at the line and column of the tag's `<`.
C2_OnlyWhitespaceBeforeTag ==
  lexResult.kind = "Ok" =>
    /\ BeginsWithTag(source)
    /\ lexResult.tokens[1] =
         spanned(Tk("OpenTag"), LineAt(source, LeadLen(source)),
                 ColAt(source, LeadLen(source)))

\* C3: on an input that begins with <?php after leading whitespace, every
\* pass of the token loop consumes input or ends tokenize, the cursor never
\* leaves the source (so tokenize terminates), and a returned token sequence
\* holds exactly one Eof, as its last token, at the line and column of the
\* end of the source, all of which has been consumed.
C3_EofState ==
  /\ lexer.pos <= Len(source)
  /\ BeginsWithTag(source) /\ lexResult.kind = "Ok" =>
       LET ts == lexResult.tokens
           n  == Len(ts)
       IN  /\ n >= 2
           /\ ts[n].token = Tk("Eof")
           /\ \A i \in 1..(n - 1) : ts[i].token # Tk("Eof")
           /\ ts[n].line = LineAt(source, Len(source))
           /\ ts[n].col = ColAt(source, Len(source))
           /\ lexer = [pos |-> Len(source), line |-> ts[n].line, col |-> ts[n].col]

C3_LoopProgress ==
  /\ lexResult.kind = "Start" => lexResult'.kind # "Start"
  /\ lexResult.kind = "Loop" =>
       lexResult'.kind # "Loop" \/ lexer'.pos > lexer.pos

C3_TerminatesWithOneEof == []C3_EofState /\ [][C3_LoopProgress]_vars

\* a source of two lines or more that ends in a `#` comment has been tokenized
C3_Witness ==
  /\ BeginsWithTag(source)
  /\ lexResult.kind = "Ok"
  /\ Len(lexResult.tokens) >= 3
  /\ source[Len(source)] = "#"
  /\ lexResult.tokens[Len(lexResult.tokens)].line >= 2

\* the operator lexemes and their tokens
OperatorTable ==
  { <<<<"=", "=", "=">>, "Identical">>, <<<<"=", "=">>, "Equal">>,
    <<<<"=", ">">>, "Arrow">>, <<<<"=">>, "Assign">>,
    <<<<"!", "=", "=">>, "NotIdentical">>, <<<<"!", "=">>, "NotEqual">>,
    <<<<"!">>, "Not">>, <<<<"<", "=">>, "LessEqual">>, <<<<"<">>, "Less">>,
    <<<<">", "=">>, "GreaterEqual">>, <<<<">">>, "Greater">>,
    <<<<"&", "&">>, "And">>, <<<<"|", "|">>, "Or">> }

Matching(cs) == {e \in OperatorTable : IsPrefix(e[1], cs)}

Longest(cs) ==
  CHOOSE e \in Matching(cs) : \A d \in Matching(cs) : Len(d[1]) <= Len(e[1])

\* the longest-match split of a string of operator characters: the tokens,
\* ended by "FAIL" where no lexeme matches
RECURSIVE Greedy(_)
Greedy(cs) ==
  IF cs = <<>> THEN <<>>
  ELSE IF Matching(cs) = {} THEN <<"FAIL">>
  ELSE <<Longest(cs)[2]>>
       \o Greedy(SubSeq(cs, Len(Longest(cs)[1]) + 1, Len(cs)))

Failed(g) == g # <<>> /\ g[Len(g)] = "FAIL"

OperatorString(src) ==
  /\ IsPrefix(OpenTagText, src)
  /\ \A i \in (Len(OpenTagText) + 1)..Len(src) : src[i] \in OpChars

\* C6: on <?php followed by a string of the characters = ! < > & |, the
\* tokens emitted so far are always a prefix of the longest-match split,
\* tokenize fails exactly when the split does (a single & or |), and
\* otherwise returns the whole split; `$a === $b` gives Variable, Identical,
\* Variable.
C6_MaximalMunch ==
  /\ OperatorString(source) =>
       LET g == Greedy(SubSeq(source, Len(OpenTagText) + 1, Len(source)))
       IN  /\ lexResult.kind = "Loop" =>
                IsPrefix(Kinds(tokens), <<"OpenTag">> \o g)
           /\ lexResult.kind = "Ok" =>
                Kinds(lexResult.tokens) = (<<"OpenTag">> \o g) \o <<"Eof">>
           /\ LexDone => (lexResult.kind = "Err" <=> Failed(g))
  /\ LexDone /\ source = Program(<<"$a", "===", "$b">>) =>
       /\ lexResult.kind = "Ok"
       /\ [i \in 1..Len(lexResult.tokens) |-> lexResult.tokens[i].token]
            = <<Tk("OpenTag"), TkV("Variable", "a"), Tk("Identical"),
                TkV("Variable", "b"), Tk("Eof")>>

\* `====` has been tokenized as Identical, Assign
C6_Witness ==
  /\ source = OpenTagText \o <<"=", "=", "=", "=">>
  /\ lexResult.kind = "Ok"
  /\ Kinds(lexResult.tokens) = <<"OpenTag", "Identical", "Assign", "Eof">>

(***************************************************************************)
(* Properties of parse, under Spec                                         *)
(***************************************************************************)
Started == parseResult.kind # "NotStarted"

ParseDone == parseResult.kind \in {"Ok", "Err", "Panic"}

\* C4: on the tokens tokenize returned, parse never panics: while a parse
\* function runs the cursor is an index of the token sequence, the cursor
\* is past the Eof token only once parse has returned an error, and parse
\* returns Ok only with the cursor on the Eof token, the last one.
C4_NoPanicNoTruncation ==
  /\ parseResult.kind # "Panic"
  /\ parser.pos <= Len(parser.tokens)
  /\ parseResult.kind = "Running" => InRange(parser)
  /\ Started /\ ~InRange(parser) => parseResult.kind = "Err"
  /\ parseResult.kind = "Ok" =>
       /\ parser.pos = Len(parser.tokens) - 1
       /\ par_peek(parser) = Tk("Eof")
       /\ stack = <<>>

\* a source that ends inside a parameter list has been parsed: the cursor
\* has passed the Eof token and parse has returned an error
C4_Witness ==
  /\ parseResult.kind = "Err"
  /\ parser.pos = Len(parser.tokens)
  /\ Len(parser.tokens) >= 5
  /\ parser.tokens[2].token = Tk("Function")

\* C5: every error parse returns names the offending token and its
\* position: the error carries a token and an index (counted from 0 or
\* from 1) and the token at that index of the token sequence is that token.
C5_FailureLocatesToken ==
  parseResult.kind = "Err" =>
    LET e == parseResult.err
    IN  /\ "got" \in DOMAIN e
        /\ "at" \in DOMAIN e
        /\ \E i \in {e.at - 1, e.at} :
             /\ i \in 0..(Len(parser.tokens) - 1)
             /\ parser.tokens[i + 1].token = e.got

\* the tier of a binary operator token, loosest first, and its operator
Tier(t) ==
  CASE t = "Or" -> 1
    [] t = "And" -> 2
    [] t \in {"Equal", "Identical", "NotEqual", "NotIdentical"} -> 3
    [] t \in {"Less", "LessEqual", "Greater", "GreaterEqual"} -> 4
    [] t = "Dot" -> 5
    [] t \in {"Plus", "Minus"} -> 6
    [] t \in {"Star", "Slash", "Percent"} -> 7

BinaryTokens ==
  {"Or", "And", "Equal", "Identical", "NotEqual", "NotIdentical", "Less",
   "LessEqual", "Greater", "GreaterEqual", "Dot", "Plus", "Minus", "Star",
   "Slash", "Percent"}

BinOpOf(t) ==
  CASE t = "Dot" -> "Concat"
    [] t = "Plus" -> "Add"
    [] t = "Minus" -> "Sub"
    [] t = "Star" -> "Mul"
    [] t = "Slash" -> "Div"
    [] t = "Percent" -> "Mod"
    [] OTHER -> t

Leaf(t) == Lit(IF t.t = "StringLiteral" THEN "String" ELSE t.t, t.v)

\* ts is OpenTag operand (operator operand)* ; Eof
IsBinaryChain(ts) ==
  /\ Len(ts) >= 4
  /\ Len(ts) % 2 = 0
  /\ ts[1].token = Tk("OpenTag")
  /\ ts[Len(ts) - 1].token = Tk("Semicolon")
  /\ ts[Len(ts)].token = Tk("Eof")
  /\ \A i \in 2..(Len(ts) - 2) :
       IF i % 2 = 0
       THEN ts[i].token.t \in {"Integer", "StringLiteral", "Variable"}
       ELSE ts[i].token.t \in BinaryTokens

\* the tree the tier order dictates for the operands and operators at
\* ts[lo..hi]: split at the last of the loosest operators
RECURSIVE RefTree(_, _, _)
RefTree(ts, lo, hi) ==
  IF lo = hi THEN Leaf(ts[lo].token)
  ELSE LET ops     == {i \in (lo + 1)..(hi - 1) : i % 2 = 1}
           loosest == {i \in ops : \A j \in ops :
                                     Tier(ts[i].token.t) <= Tier(ts[j].token.t)}
           s       == Max(loosest)
       IN  BinaryOp(RefTree(ts, lo, s - 1), BinOpOf(ts[s].token.t),
                    RefTree(ts, s + 1, hi))

IntLit(n) == Lit("Integer", n)

ParsedAs(lexemes, expr) ==
  ParseDone /\ source = Program(lexemes) =>
    parseResult = [kind |-> "Ok", stmts |-> <<ExprStmt(expr)>>]

\* e has a concatenation with a comparison as an operand
RECURSIVE ComparisonUnderConcat(_)
ComparisonUnderConcat(e) ==
  /\ e.k = "BinaryOp"
  /\ \/ /\ e.op = "Concat"
        /\ \E x \in {e.left, e.right} :
             /\ x.k = "BinaryOp"
             /\ x.op \in {"Less", "LessEqual", "Greater", "GreaterEqual",
                          "Equal", "Identical", "NotEqual", "NotIdentical"}
     \/ ComparisonUnderConcat(e.left)
     \/ ComparisonUnderConcat(e.right)

\* C7: an expression of operands joined by binary operators parses to the
\* tree of the tier order ||, &&, equality, relational, `.`, additive,
\* multiplicative, equal tiers folded to the left; unary and postfix bind
\* tighter than every binary operator, postfix tightest; no concatenation
\* has a comparison as an operand.
C7_PrecedenceTiers ==
  /\ ParseDone /\ IsBinaryChain(parser.tokens) =>
       /\ parseResult =
            [kind |-> "Ok",
             stmts |-> <<ExprStmt(RefTree(parser.tokens, 2,
                                          Len(parser.tokens) - 2))>>]
       /\ ~ComparisonUnderConcat(parseResult.stmts[1].expr)
  /\ ParsedAs(<<"2", "+", "3", "*", "4", ";">>,
              BinaryOp(IntLit("2"), "Add", BinaryOp(IntLit("3"), "Mul", IntLit("4"))))
  /\ ParsedAs(<<"\"a\"", ".", "1", "+", "2", ";">>,
              BinaryOp(Lit("String", "a"), "Concat",
                       BinaryOp(IntLit("1"), "Add", IntLit("2"))))
  /\ ParsedAs(<<"1", "-", "2", "-", "3", ";">>,
              BinaryOp(BinaryOp(IntLit("1"), "Sub", IntLit("2")), "Sub", IntLit("3")))
  /\ ParsedAs(<<"-", "1", "*", "2", ";">>,
              BinaryOp(UnaryOp("Negate", IntLit("1")), "Mul", IntLit("2")))
  /\ ParsedAs(<<"1", "-", "-", "2", ";">>,
              BinaryOp(IntLit("1"), "Sub", UnaryOp("Negate", IntLit("2"))))
  /\ ParsedAs(<<"!", "$a", "[", "1", "]", ";">>,
              UnaryOp("Not", ArrayAccess(Lit("Variable", "a"), IntLit("1"))))

\* 1 < 2 . 3 + 4 has been parsed: the comparison encloses the concatenation,
\* which encloses the sum
C7_Witness ==
  /\ source = Program(<<"1", "<", "2", ".", "3", "+", "4", ";">>)
  /\ parseResult.kind = "Ok"
  /\ parseResult.stmts[1].expr.op = "Less"
  /\ parseResult.stmts[1].expr.right.op = "Concat"
  /\ parseResult.stmts[1].expr.right.right.op = "Add"

\* the number of `$v =` pairs ts has after the open tag
Targets(ts) ==
  Max({n \in 0..((Len(ts) - 2) \div 2) :
         \A i \in 1..n : /\ ts[2 * i].token.t = "Variable"
                         /\ ts[2 * i + 1].token = Tk("Assign")})

\* ts is OpenTag ($v =)+ e ; Eof with e operands joined by binary operators
IsAssignChain(ts) ==
  /\ Len(ts) >= 6
  /\ Len(ts) % 2 = 0
  /\ ts[1].token = Tk("OpenTag")
  /\ ts[Len(ts) - 1].token = Tk("Semicolon")
  /\ ts[Len(ts)].token = Tk("Eof")
  /\ Targets(ts) >= 1
  /\ \A i \in (2 * Targets(ts) + 2)..(Len(ts) - 2) :
       IF i % 2 = 0
       THEN ts[i].token.t \in {"Integer", "StringLiteral", "Variable"}
       ELSE ts[i].token.t \in BinaryTokens

\* Assign(v_i, Assign(v_i+1, ... Assign(v_n, e)))
RECURSIVE RefAssign(_, _)
RefAssign(ts, i) ==
  IF i > Targets(ts)
  THEN RefTree(ts, 2 * Targets(ts) + 2, Len(ts) - 2)
  ELSE Assign(ts[2 * i].token.v, RefAssign(ts, i + 1))

\* C8: $v1 = $v2 = ... = $vn = e parses to
\* Assign(v1, Assign(v2, ... Assign(vn, e))), where e is the whole of the
\* right-hand side, an expression of binary operators included;
\* $a = $b = 1 is Assign(a, Assign(b, 1)).
C8_AssignmentRightAssociative ==
  /\ ParseDone /\ IsAssignChain(parser.tokens) =>
       parseResult =
         [kind |-> "Ok", stmts |-> <<ExprStmt(RefAssign(parser.tokens, 1))>>]
  /\ ParsedAs(<<"$a", "=", "$b", "=", "1", ";">>,
              Assign("a", Assign("b", IntLit("1"))))

\* $a = $b = $a = 1 || 2 has been parsed, the || under the third Assign
C8_Witness ==
  /\ source = Program(<<"$a", "=", "$b", "=", "$a", "=", "1", "||", "2", ";">>)
  /\ parseResult.kind = "Ok"
  /\ parseResult.stmts[1].expr.value.value.value =
       BinaryOp(IntLit("1"), "Or", IntLit("2"))

Min(S) == CHOOSE x \in S : \A y \in S : x <= y

\* the tokens ts[lo..hi]
Toks(ts, lo, hi) == [i \in 1..(hi - lo + 1) |-> ts[lo + i - 1].token]

\* ts[lo..hi] split at its commas
RECURSIVE Elements(_, _, _)
Elements(ts, lo, hi) ==
  LET commas == {i \in lo..hi : ts[i].token = Tk("Comma")}
  IN  IF commas = {} THEN <<Toks(ts, lo, hi)>>
      ELSE <<Toks(ts, lo, Min(commas) - 1)>> \o Elements(ts, Min(commas) + 1, hi)

\* ts is OpenTag [ ... ] ; Eof with integers, => and commas in the brackets
IsArrayStmt(ts) ==
  /\ Len(ts) >= 5
  /\ ts[1].token = Tk("OpenTag")
  /\ ts[2].token = Tk("OpenBracket")
  /\ ts[Len(ts) - 2].token = Tk("CloseBracket")
  /\ ts[Len(ts) - 1].token = Tk("Semicolon")
  /\ ts[Len(ts)].token = Tk("Eof")
  /\ \A i \in 3..(Len(ts) - 3) : ts[i].token.t \in {"Integer", "Arrow", "Comma"}

\* the elements between the brackets, without the empty one that a comma
\* before the ] leaves
ArrayElems(ts) ==
  LET els == IF Len(ts) = 5 THEN <<>> ELSE Elements(ts, 3, Len(ts) - 3)
  IN  IF Len(els) >= 2 /\ els[Len(els)] = <<>>
      THEN SubSeq(els, 1, Len(els) - 1)
      ELSE els

IsElement(el) ==
  \/ Len(el) = 1 /\ el[1].t = "Integer"
  \/ Len(el) = 3 /\ el[1].t = "Integer" /\ el[2].t = "Arrow" /\ el[3].t = "Integer"

RefEntry(el) ==
  IF Len(el) = 1
  THEN [key |-> NoneOpt, value |-> Leaf(el[1])]
  ELSE [key |-> Some(Leaf(el[1])), value |-> Leaf(el[3])]

FailsOn(lexemes) ==
  ParseDone /\ source = Program(lexemes) => parseResult.kind = "Err"

\* C9: an array literal parses to one entry per element, in source order,
\* `k => v` with key Some(k) and a plain element with key None, equal keys
\* kept; a comma before the ] adds nothing ([1, 2,] parses as [1, 2]); an
\* empty element ([,], [1,,2]) makes parse fail.
C9_ArrayLiteralEntries ==
  /\ ParseDone /\ IsArrayStmt(parser.tokens) =>
       LET els == ArrayElems(parser.tokens)
       IN  IF \A i \in 1..Len(els) : IsElement(els[i])
           THEN parseResult =
                  [kind |-> "Ok",
                   stmts |-> <<ExprStmt(ArrayLiteral(
                                 [i \in 1..Len(els) |-> RefEntry(els[i])]))>>]
           ELSE parseResult.kind = "Err"
  /\ ParsedAs(<<"[", "1", ",", "2", ",", "]", ";">>,
              ArrayLiteral(<<ArrayEntry(NoneOpt, IntLit("1")),
                             ArrayEntry(NoneOpt, IntLit("2"))>>))
  /\ ParsedAs(<<"[", "1", ",", "2", "]", ";">>,
              ArrayLiteral(<<ArrayEntry(NoneOpt, IntLit("1")),
                             ArrayEntry(NoneOpt, IntLit("2"))>>))
  /\ FailsOn(<<"[", ",", "]", ";">>)
  /\ FailsOn(<<"[", "1", ",", ",", "2", "]", ";">>)

\* [1 => 2, 1 => 2, 2,] has been parsed to three entries, the first two
\* with the same key
C9_Witness ==
  /\ source = Program(<<"[", "1", "=>", "2", ",", "1", "=>", "2", ",", "2",
                        ",", "]", ";">>)
  /\ parseResult.kind = "Ok"
  /\ Len(parseResult.stmts[1].expr.entries) = 3
  /\ parseResult.stmts[1].expr.entries[1].key = Some(IntLit("1"))
  /\ parseResult.stmts[1].expr.entries[2].key = Some(IntLit("1"))
  /\ parseResult.stmts[1].expr.entries[3].key = NoneOpt

IsClauseKeyword(t) == t \in {"Elseif", "Else"}

\* the elseif and else keywords of ts, in order
ClauseKinds(ts) == SelectSeq(Kinds(ts), IsClauseKeyword)

\* the index in ts of its j-th elseif or else keyword
ClauseIndex(ts, j) ==
  LET S == {i \in 1..Len(ts) : IsClauseKeyword(ts[i].token.t)}
  IN  CHOOSE i \in S : Cardinality({x \in S : x <= i}) = j

ClauseTokens(kind, i) ==
  IF kind = "Elseif"
  THEN <<Tk("Elseif"), Tk("OpenParen"), TkV("Integer", Operand(i)),
         Tk("CloseParen"), Tk("OpenBrace"), Tk("Echo"),
         TkV("Integer", Operand(i)), Tk("Semicolon"), Tk("CloseBrace")>>
  ELSE <<Tk("Else"), Tk("OpenBrace"), Tk("Echo"), TkV("Integer", Operand(i)),
         Tk("Semicolon"), Tk("CloseBrace")>>

\* ts is if (0) { echo 0; } followed by clauses, the i-th being
\* elseif (i) { echo i; } or else { echo i; }
IsIfChain(ts) ==
  /\ Len(ts) >= 11
  /\ ts[2].token = Tk("If")
  /\ Len(ClauseKinds(ts)) <= 9
  /\ [i \in 1..Len(ts) |-> ts[i].token] =
       <<Tk("OpenTag"), Tk("If"), Tk("OpenParen"), TkV("Integer", "0"),
         Tk("CloseParen"), Tk("OpenBrace"), Tk("Echo"), TkV("Integer", "0"),
         Tk("Semicolon"), Tk("CloseBrace")>>
       \o Flatten([i \in 1..Len(ClauseKinds(ts)) |->
                     ClauseTokens(ClauseKinds(ts)[i], i)])
       \o <<Tk("Eof")>>

\* the first else among the clause keywords K, 0 when there is none
FirstElse(K) ==
  IF \A i \in 1..Len(K) : K[i] # "Else" THEN 0
  ELSE Min({i \in 1..Len(K) : K[i] = "Else"})

EchoOf(i) == [k |-> "Echo", exprs |-> <<IntLit(Operand(i))>>]

\* the If node of the chain with clause keywords K: the elseif clauses
\* before the first else, in order, and the block of the first else
RefIf(K) ==
  [k |-> "If",
   condition |-> IntLit("0"),
   then_block |-> <<[k |-> "Echo", exprs |-> <<IntLit("0")>>]>>,
   elseif_blocks |->
     [i \in 1..(IF FirstElse(K) = 0 THEN Len(K) ELSE FirstElse(K) - 1) |->
        <<IntLit(Operand(i)), <<EchoOf(i)>>>>],
   else_block |->
     IF FirstElse(K) = 0 THEN NoneOpt ELSE Some(<<EchoOf(FirstElse(K))>>)]

\* C10: the If node of an if chain has the elseif clauses before the first
\* else as its elseif branches, in source order, and an else-block exactly
\* when there is an else; nothing after the else-block joins the node: the
\* statement list of parse holds the node as it was returned, and an elseif
\* or else after the else-block is met where the next statement begins,
\* where parse fails on it.
C10_IfChain ==
  Started /\ IsIfChain(parser.tokens) =>
    LET K == ClauseKinds(parser.tokens)
        e == FirstElse(K)
    IN  /\ stack # <<>> /\ stack[1].pc \in {"loop", "push"}
             /\ stack[1].stmts # <<>> => stack[1].stmts = <<RefIf(K)>>
        /\ ParseDone =>
             IF e = 0 \/ e = Len(K)
             THEN parseResult = [kind |-> "Ok", stmts |-> <<RefIf(K)>>]
             ELSE /\ parseResult.kind = "Err"
                  /\ parseResult.err.msg = "Unexpected token"
                  /\ parseResult.err.got = Tk(K[e + 1])
                  /\ parser.pos + 1 = ClauseIndex(parser.tokens, e + 1)

\* if, elseif, elseif, else has been parsed to an If node of two elseif
\* branches and an else-block
C10_Witness ==
  /\ IsIfChain(parser.tokens)
  /\ ClauseKinds(parser.tokens) = <<"Elseif", "Elseif", "Else">>
  /\ parseResult.kind = "Ok"
  /\ Len(parseResult.stmts[1].elseif_blocks) = 2
  /\ parseResult.stmts[1].elseif_blocks[1][1] = IntLit("1")
  /\ parseResult.stmts[1].else_block # NoneOpt

(***************************************************************************)
(* Token positions, under SpecLex                                          *)
(***************************************************************************)
\* the tokens pushed so far, or returned
Pushed == IF lexResult.kind = "Ok" THEN lexResult.tokens ELSE tokens

\* the offsets of src whose line and column are line and col
OffsetsAt(src, line, col) ==
  {n \in 0..Len(src) : LineAt(src, n) = line /\ ColAt(src, n) = col}

\* the characters a token of kind t can begin with
FirstChars(t) ==
  CASE t \in {"OpenTag", "Less", "LessEqual"} -> {"<"}
    [] t \in {"Integer", "Float"} -> Digits
    [] t = "StringLiteral" -> {"'", "\""}
    [] t = "Variable" -> {"$"}
    [] t \in {"Assign", "Equal", "Identical", "Arrow"} -> {"="}
    [] t \in {"Not", "NotEqual", "NotIdentical"} -> {"!"}
    [] t \in {"Greater", "GreaterEqual"} -> {">"}
    [] t = "And" -> {"&"}
    [] t = "Or" -> {"|"}
    [] t = "Plus" -> {"+"}
    [] t = "Minus" -> {"-"}
    [] t = "Star" -> {"*"}
    [] t = "Slash" -> {"/"}
    [] t = "Percent" -> {"%"}
    [] t = "Dot" -> {"."}
    [] t = "OpenParen" -> {"("}
    [] t = "CloseParen" -> {")"}
    [] t = "OpenBrace" -> {"{"}
    [] t = "CloseBrace" -> {"}"}
    [] t = "OpenBracket" -> {"["}
    [] t = "CloseBracket" -> {"]"}
    [] t = "Semicolon" -> {";"}
    [] t = "Comma" -> {","}
    [] OTHER -> Alphabetic \cup {"_"}

\* sp carries the line and column of an offset of src where a token of its
\* kind begins (for Eof, the end of src)
Located(src, sp) ==
  \E n \in OffsetsAt(src, sp.line, sp.col) :
    IF sp.token = Tk("Eof") THEN n = Len(src)
    ELSE n < Len(src) /\ src[n + 1] \in FirstChars(sp.token.t)

Before(a, b) == a.line < b.line \/ (a.line = b.line /\ a.col < b.col)

\* C11: the token pushed last carries the line (1 + newlines before it) and
\* column (1 + characters since the last newline) of its first character,
\* and lies after the token before it in (line, column) order; every token
\* of a returned sequence was the last one pushed in an earlier state, so
\* this holds of every token; the lexer's own line and column are those of
\* its offset.
C11_TokenPositions ==
  /\ lexer.line = LineAt(source, lexer.pos)
  /\ lexer.col = ColAt(source, lexer.pos)
  /\ LET ts == Pushed
         n  == Len(ts)
     IN  /\ n >= 1 => Located(source, ts[n])
         /\ n >= 2 => Before(ts[n - 1], ts[n])

\* a string literal holding a newline has been followed by a token on
\* line 2
C11_Witness ==
  /\ lexResult.kind = "Ok"
  /\ Len(lexResult.tokens) = 4
  /\ lexResult.tokens[2].token = TkV("StringLiteral", "\n")
  /\ lexResult.tokens[3].line = 2
  /\ lexResult.tokens[3].col = 2

(***************************************************************************)
(* Integer literals, under SpecLex                                         *)
(***************************************************************************)
\* src is <?php, a blank and a digit-only literal
IsIntegerSource(src) ==
  /\ Len(src) > Len(OpenTagText) + 1
  /\ IsPrefix(OpenTagText \o <<" ">>, src)
  /\ \A i \in (Len(OpenTagText) + 2)..Len(src) : src[i] \in Digits

LiteralOf(src) == SubSeq(src, Len(OpenTagText) + 2, Len(src))

\* ds without its leading zeros
Canonical(ds) ==
  LET nz == {i \in 1..Len(ds) : ds[i] # "0"}
  IN  IF nz = {} THEN <<"0">> ELSE SubSeq(ds, Min(nz), Len(ds))

\* a <= b as numbers, for numerals without leading zeros
NumeralLeq(a, b) ==
  \/ Len(a) < Len(b)
  \/ /\ Len(a) = Len(b)
     /\ \/ a = b
        \/ \E i \in 1..Len(a) :
             /\ DigitValue(a[i]) < DigitValue(b[i])
             /\ \A j \in 1..(i - 1) : a[j] = b[j]

\* 2^63 - 1
MaxI64Numeral ==
  <<"9", "2", "2", "3", "3", "7", "2", "0", "3", "6", "8", "5", "4", "7",
    "7", "5", "8", "0", "7">>

\* C12: on a digit-only literal tokenize never panics: it returns
\* Integer(n), n the decimal value of the literal, when that is at most
\* 2^63 - 1, and an error otherwise.
C12_IntegerLiteral ==
  LexDone /\ IsIntegerSource(source) =>
    IF NumeralLeq(Canonical(LiteralOf(source)), MaxI64Numeral)
    THEN /\ lexResult.kind = "Ok"
         /\ Len(lexResult.tokens) = 3
         /\ lexResult.tokens[2].token =
              TkV("Integer", Str(Canonical(LiteralOf(source))))
    ELSE lexResult.kind = "Err"

(***************************************************************************)
(* String literals, under SpecLex                                          *)
(***************************************************************************)
Quotes == {"'", "\""}

\* src is <?php and a quote, then anything
IsStringSource(src) ==
  /\ Len(src) > Len(OpenTagText)
  /\ IsPrefix(OpenTagText, src)
  /\ src[Len(OpenTagText) + 1] \in Quotes

QuoteOf(src) == src[Len(OpenTagText) + 1]

BodyOf(src) == SubSeq(src, Len(OpenTagText) + 2, Len(src))

\* b[i] follows an odd number of backslashes: it is the second character
\* of an escape
Escaped(b, i) ==
  Max({m \in 0..(i - 1) : \A j \in (i - m)..(i - 1) : b[j] = "\\"}) % 2 = 1

\* the index of the first delimiter q of b that is not escaped, Len(b) + 1
\* when there is none
EndOf(b, q) ==
  Min({i \in 1..Len(b) : b[i] = q /\ ~Escaped(b, i)} \cup {Len(b) + 1})

\* what b[i] adds to the value
Decoded(b, i, q) ==
  IF Escaped(b, i)
  THEN CASE b[i] = "n" -> <<"\n">>
         [] b[i] = "t" -> <<"\t">>
         [] b[i] = "\\" -> <<"\\">>
         [] b[i] = q -> <<q>>
         [] OTHER -> <<"\\", b[i]>>
  ELSE IF b[i] = "\\" THEN <<>> ELSE <<b[i]>>

ValueOf(b, q) == Str(Flatten([i \in 1..(EndOf(b, q) - 1) |-> Decoded(b, i, q)]))

\* C13: the token of a quoted literal holds the characters between the
\* delimiters, up to the first delimiter that is not escaped, with \n, \t,
\* \\ and the escaped delimiter decoded and every other escape kept as its
\* two characters; the lexer is then just past the closing delimiter; a
\* literal the input ends in holds what was read and is followed by Eof in
\* a successful result.
C13_StringDecoding ==
  IsStringSource(source) =>
    LET b == BodyOf(source)
        q == QuoteOf(source)
    IN  /\ Len(Pushed) >= 2 =>
             Pushed[2].token = TkV("StringLiteral", ValueOf(b, q))
        /\ lexResult.kind = "Loop" /\ Len(tokens) = 2 =>
             lexer.pos = Len(OpenTagText) + 1 + Min({EndOf(b, q), Len(b)})
        /\ EndOf(b, q) > Len(b) /\ lexResult.kind # "Start" =>
             /\ lexResult.kind \in {"Loop", "Ok"}
             /\ lexResult.kind = "Ok" =>
                  /\ Len(lexResult.tokens) = 3
                  /\ lexResult.tokens[3].token = Tk("Eof")

\* '\"\' has been read to its end: the other quote keeps its backslash,
\* the escaped delimiter does not end the literal, and the input ends first
C13_Witness ==
  /\ source = OpenTagText \o <<"'", "\\", "\"", "\\", "'">>
  /\ lexResult.kind = "Ok"
  /\ lexResult.tokens[2].token = TkV("StringLiteral", "\\\"'")
  /\ lexResult.tokens[3].token = Tk("Eof")

(***************************************************************************)
(* Assignment targets, under Spec                                          *)
(***************************************************************************)
\* what each value of TargetValues parses to, or the error it fails with
ValueResult(v) ==
  CASE v = <<"1">> -> [ok |-> TRUE, expr |-> IntLit("1")]
    [] v = <<"$b", "+", "1">> ->
         [ok |-> TRUE,
          expr |-> BinaryOp(Lit("Variable", "b"), "Add", IntLit("1"))]
    [] v = <<")">> -> [ok |-> FALSE, msg |-> "Unexpected token"]
    [] v = <<"f">> ->
         [ok |-> FALSE, msg |-> "Unexpected identifier (not a function call)"]
    [] v = <<"2", "=", "3">> ->
         [ok |-> FALSE, msg |-> "Invalid assignment target"]

\* the outcome of target = value ;
TargetOutcome(t, v) ==
  IF ~ValueResult(v).ok
  THEN /\ parseResult.kind = "Err"
       /\ parseResult.err.msg = ValueResult(v).msg
  ELSE CASE t.shape = "Variable" ->
              parseResult =
                [kind |-> "Ok",
                 stmts |-> <<ExprStmt([k |-> "Assign", variable |-> t.name,
                                       value |-> ValueResult(v).expr])>>]
         [] t.shape = "ArrayAccess" ->
              parseResult =
                [kind |-> "Ok",
                 stmts |-> <<ExprStmt([k |-> "Assign",
                                       variable |-> "__array_set",
                                       value |-> ValueResult(v).expr])>>]
         [] t.shape = "Other" ->
              /\ parseResult.kind = "Err"
              /\ parseResult.err = [msg |-> "Invalid assignment target"]
              /\ parser.pos = Len(parser.tokens) - 2
              /\ par_peek(parser) = Tk("Semicolon")

\* C14: target = value ; assigns to the name of a Variable target, assigns
\* to __array_set for an ArrayAccess target, keeping the value and nothing
\* of the base and the index, and fails with Invalid assignment target for
\* every other target, with the cursor past the value; when the value does
\* not parse, parse fails with the value's error whatever the target.
C14_AssignmentTargets ==
  ParseDone =>
    \A t \in TargetShapes, v \in TargetValues :
      source = Program(((t.lex \o <<"=">>) \o v) \o <<";">>) =>
        TargetOutcome(t, v)

\* 1 + 2 = $b + 1 ; has failed on its target after the value was parsed
C14_Witness ==
  /\ source = Program(<<"1", "+", "2", "=", "$b", "+", "1", ";">>)
  /\ parseResult = [kind |-> "Err", err |-> [msg |-> "Invalid assignment target"]]
  /\ par_peek(parser) = Tk("Semicolon")

(***************************************************************************)
(* The cursor, under SpecFair                                              *)
(***************************************************************************)
\* a step of the parser: the token sequence stays as it is and the cursor
\* stays or moves forward by one; a step that stays in the function it is
\* in moves the cursor; a call that returns has moved the cursor past the
\* index it was entered at
C15_Step ==
  parseResult.kind = "Running" =>
    /\ parser'.tokens = parser.tokens
    /\ parser'.pos \in {parser.pos, parser.pos + 1}
    /\ parseResult'.kind = "Running" /\ Len(stack') = Len(stack)
         /\ stack'[Len(stack')].fn = Top.fn =>
           parser'.pos = parser.pos + 1
    /\ parseResult'.kind \in {"Running", "Ok"} /\ Len(stack') < Len(stack) =>
         parser'.pos > entered[Len(entered)]

\* C15: the parser never changes the token sequence and moves its cursor
\* only forward, one token at a time; every pass of a loop of the parser
\* is a step inside the loop's function, which consumes a token, or a call
\* that returns, which has consumed one, or ends in an error; and parse,
\* once called, returns.
C15_ForwardProgress ==
  /\ [][C15_Step]_vars
  /\ (parseResult.kind = "Running") ~> ParseDone

\* the example with while, for, an index assignment and an array literal
\* has been parsed to its four statements
C15_Witness ==
  /\ parseResult.kind = "Ok"
  /\ Len(parseResult.stmts) = 4
  /\ parseResult.stmts[1].k = "While"
  /\ parseResult.stmts[3].k = "For"
  /\ parser.pos = Len(parser.tokens) - 1

====
